---- MODULE Spec2Model ----
(***************************************************************************)
(* A model of gijiroku-kun's capture core:                                 *)
(*   - SpeechRecognitionEngine (src/src/lib/speech-recognition.ts), the    *)
(*     reconnecting wrapper around the browser's continuous recognition    *)
(*     primitive;                                                          *)
(*   - AudioCaptureEngine (src/unnamed/part_001), the other-channel        *)
(*     capture, mix graph and double-buffered recorder rotation;           *)
(*   - transcribeWithGroq's hallucination filter (src/src/lib/ai-service); *)
(*   - the chunk dispatch path handleAudioChunk -> addLog.                 *)
(* Each component has its own specification over its own variables; the    *)
(* variables of the other components stay at their initial values.         *)
(***************************************************************************)
EXTENDS Integers, Sequences, FiniteSets, TLC

(***************************************************************************)
(* Bounds of the model.                                                    *)
(***************************************************************************)
\* Underlying recognition sessions that may be alive at the same time.
MaxInst == 2
\* Restart timers that may be pending at the same time.
MaxTimers == 2

(***************************************************************************)
(* State of the SpeechRecognitionEngine and of the recognition primitive.  *)
(***************************************************************************)
VARIABLES
    supported,      \* environment: window.(webkit)SpeechRecognition exists
    recognition,    \* this.recognition: 0 (null) or the slot of the current instance
    isRunning,      \* this.isRunning
    shouldRestart,  \* this.shouldRestart
    inst,           \* the primitive's instances, by slot
    timers,         \* pending setTimeout callbacks armed by onerror, oldest first
    sinceStop,      \* history: stop() was called and start() has not been called since
    sinceStart,     \* history: start() returned true and stop() has not been called since
    observe,        \* history: whether one error signal is observed (fixed at Init)
    fail,           \* history: the observed error signal and the restart attempts it led to
    last            \* history: what the last handler did

srVars == <<supported, recognition, isRunning, shouldRestart, inst, timers,
            sinceStop, sinceStart, observe, fail, last>>

Slots == 1..MaxInst

\* A SpeechRecognition instance that is not started: new SpeechRecognition(), or
\* one whose session has ended. `seen` marks the session of the observed error.
IdleInst == [st |-> "idle", started |-> FALSE, errored |-> FALSE, seen |-> FALSE]

\* An instance whose start() has just been accepted.
ActiveInst == [st |-> "active", started |-> FALSE, errored |-> FALSE, seen |-> FALSE]

\* No error signal is observed yet.
NoFail == [used |-> FALSE, running |-> FALSE, cancelled |-> FALSE,
           attempts |-> 0, early |-> FALSE]

\* What a handler did: the operation, the number of calls it made to the
\* primitive's start(), the number of restart timers it armed, the callbacks it
\* invoked, its return value, whether it raised, and the engine's flags when it
\* was entered.
Did(op, calls, armed, cbs, ret) ==
    [op |-> op, calls |-> calls, armed |-> armed, cbs |-> cbs, ret |-> ret,
     raised |-> FALSE,
     preRestart |-> shouldRestart, preRunning |-> isRunning, preStopped |-> sinceStop]

\* getIsRunning()
getIsRunning == isRunning \/ shouldRestart

\* isSupported() answers true in every environment.
isSupportedAlways == TRUE

\* SpeechRecognitionEngine.isSupported()
isSupported == supported

\* The primitive's start() on instance r: accepted when the instance is idle, an
\* InvalidStateError otherwise (the instances are left as they are).
PrimStart(insts, r) ==
    IF r # 0 /\ insts[r].st = "idle" THEN [insts EXCEPT ![r] = ActiveInst] ELSE insts

\* The primitive's start() throws an InvalidStateError on an instance that is
\* already started.
PrimStartThrows(insts, r) == r # 0 /\ insts[r].st # "idle"

\* The primitive's stop(): an active session is asked to end; nothing otherwise.
PrimStop(insts, r) ==
    IF r # 0 /\ insts[r].st = "active"
    THEN [insts EXCEPT ![r].st = "closing"] ELSE insts

\* The primitive's stop() may throw on a session that is not active (never
\* started, already asked to end, or ended).
PrimStopMayThrow(insts, r) == r # 0 /\ insts[r].st # "active"

\* stop(): `try { this.recognition.stop(); } catch { /* ignore */ }`
StopGuarded == TRUE

\* The restart calls the primitive's start() outside any try block.
RestartBare == FALSE

\* onend and the restart timer: `try { this.recognition?.start(); } catch { }`
RestartGuarded == TRUE

\* The number of calls `this.recognition?.start()` makes to the primitive.
StartCalls(r) == IF r # 0 THEN 1 ELSE 0

\* A slot for the object `new SpeechRecognition()` creates: an instance that has
\* ended and that the engine replaces can never be started again.
FreeSlots == {i \in Slots : inst[i].st = "idle"}

\* onend restarts the session only when shouldRestart is unset.
OnEndNeverRestarts == FALSE

\* recognition.onend: `if (this.shouldRestart)`
OnEndRestarts == shouldRestart

\* onerror arms the restart timer whatever shouldRestart is.
OnErrorAlwaysRestarts == TRUE

\* recognition.onerror: `if (this.shouldRestart)`
OnErrorRestarts == shouldRestart

\* The timer of the observed error is pending and its delay has not elapsed.
SeenTimerWaiting == \E k \in 1..Len(timers) : timers[k].seen /\ ~timers[k].elapsed

\* The observed error is settled: its timer has fired and its session has ended.
Settled ==
    /\ fail.used
    /\ \A k \in 1..Len(timers) : ~timers[k].seen
    /\ \A i \in Slots : ~inst[i].seen

SRInit ==
    /\ supported \in BOOLEAN
    /\ observe \in BOOLEAN
    /\ recognition = 0
    /\ isRunning = FALSE
    /\ shouldRestart = FALSE
    /\ inst = [i \in Slots |-> IdleInst]
    /\ timers = <<>>
    /\ sinceStop = FALSE
    /\ sinceStart = FALSE
    /\ fail = NoFail
    /\ last = [op |-> "init", calls |-> 0, armed |-> 0, cbs |-> <<>>, ret |-> FALSE,
               raised |-> FALSE,
               preRestart |-> FALSE, preRunning |-> FALSE, preStopped |-> FALSE]

\* start(), in an environment without the recognition primitive.
StartUnsupported ==
    /\ ~isSupported
    /\ last' = Did("start", 0, 0, <<"onError">>, FALSE)
    /\ sinceStop' = FALSE
    /\ UNCHANGED <<supported, observe, recognition, isRunning, shouldRestart, inst, timers,
                   sinceStart, fail>>

\* start(), when this.isRunning is set: returns true at once.
StartAlreadyRunning ==
    /\ isSupported
    /\ isRunning
    /\ last' = Did("start", 0, 0, <<>>, TRUE)
    /\ sinceStop' = FALSE
    /\ sinceStart' = TRUE
    /\ UNCHANGED <<supported, observe, recognition, isRunning, shouldRestart, inst, timers, fail>>

\* start(): a new instance is created and started; the primitive's start() may
\* throw.
StartNew ==
    /\ isSupported
    /\ ~isRunning
    /\ FreeSlots # {}
    /\ \E throws \in BOOLEAN :
        LET i == CHOOSE j \in FreeSlots : \A k \in FreeSlots : j <= k IN
        /\ recognition' = i
        /\ shouldRestart' = TRUE
        /\ inst' = IF throws THEN [inst EXCEPT ![i] = IdleInst]
                   ELSE [inst EXCEPT ![i] = ActiveInst]
        /\ last' = Did("start", 1, 0, IF throws THEN <<"onError">> ELSE <<>>, ~throws)
        /\ sinceStart' = IF throws THEN sinceStart ELSE TRUE
    /\ sinceStop' = FALSE
    /\ UNCHANGED <<supported, observe, isRunning, timers, fail>>

\* stop(): the primitive's stop() may throw; an exception that is not caught
\* leaves stop() before isRunning is cleared.
Stop ==
    /\ \E throws \in {FALSE, PrimStopMayThrow(inst, recognition)} :
        LET raised == throws /\ ~StopGuarded IN
        /\ isRunning' = IF raised THEN isRunning ELSE FALSE
        /\ last' = [Did("stop", 0, 0, <<>>, TRUE) EXCEPT !.raised = raised]
    /\ shouldRestart' = FALSE
    /\ inst' = PrimStop(inst, recognition)
    /\ sinceStop' = TRUE
    /\ sinceStart' = FALSE
    /\ fail' = IF fail.used /\ ~Settled THEN [fail EXCEPT !.cancelled = TRUE] ELSE fail
    /\ UNCHANGED <<supported, observe, recognition, timers>>

\* The primitive signals 'start' on instance i: recognition.onstart. The signal
\* of a session that stop() has already asked to end may still be delivered.
OnStart(i) ==
    /\ inst[i].st \in {"active", "closing"}
    /\ ~inst[i].started
    /\ ~inst[i].errored
    /\ inst' = [inst EXCEPT ![i].started = TRUE]
    /\ isRunning' = TRUE
    /\ last' = Did("onstart", 0, 0, <<"onStart">>, TRUE)
    /\ UNCHANGED <<supported, observe, recognition, shouldRestart, timers, sinceStop, sinceStart, fail>>

\* The primitive signals 'end' on instance i: recognition.onend. A session ends
\* after stop(), after an error, or by itself (the primitive's own timeout).
OnEnd(i) ==
    /\ inst[i].st = "closing" \/ (inst[i].st = "active" /\ inst[i].started)
    /\ LET ended == [inst EXCEPT ![i] = IdleInst] IN
       /\ isRunning' = FALSE
       /\ IF OnEndRestarts
          THEN /\ inst' = PrimStart(ended, recognition)
               /\ last' = [Did("onend", StartCalls(recognition), 0, <<>>, TRUE)
                             EXCEPT !.raised = PrimStartThrows(ended, recognition)
                                               /\ ~RestartGuarded]
               /\ fail' = IF inst[i].seen
                          THEN [fail EXCEPT !.attempts = @ + StartCalls(recognition),
                                            !.early = @ \/ SeenTimerWaiting]
                          ELSE fail
          ELSE /\ inst' = ended
               /\ last' = Did("onend", 0, 0, <<"onEnd">>, TRUE)
               /\ fail' = fail
    /\ UNCHANGED <<supported, observe, recognition, shouldRestart, timers, sinceStop, sinceStart>>

\* The primitive signals 'error' on instance i: recognition.onerror. The primitive
\* ends the session after an error, so 'end' follows. `see` makes this error the
\* observed one (one error per behaviour, signalled while a restart is intended).
OnError(i) ==
    /\ inst[i].st \in {"active", "closing"}
    /\ ~inst[i].errored
    /\ OnErrorRestarts => Len(timers) < MaxTimers
    /\ \E see \in {FALSE, observe /\ OnErrorRestarts /\ ~fail.used} :
        /\ inst' = [inst EXCEPT ![i].errored = TRUE, ![i].st = "closing", ![i].seen = see]
        /\ fail' = IF see THEN [NoFail EXCEPT !.used = TRUE, !.running = isRunning]
                   ELSE fail
        /\ IF OnErrorRestarts
           THEN /\ timers' = Append(timers, [seen |-> see, elapsed |-> FALSE])
                /\ last' = Did("onerror", 0, 1, <<>>, TRUE)
           ELSE /\ timers' = timers
                /\ last' = Did("onerror", 0, 0, <<>>, TRUE)
    /\ UNCHANGED <<supported, observe, recognition, isRunning, shouldRestart, sinceStop, sinceStart>>

\* The fixed restart delay of the oldest waiting timer elapses.
DelayElapses ==
    /\ \E k \in 1..Len(timers) :
        /\ ~timers[k].elapsed
        /\ \A j \in 1..(k - 1) : timers[j].elapsed
        /\ timers' = [timers EXCEPT ![k].elapsed = TRUE]
    /\ UNCHANGED <<supported, observe, recognition, isRunning, shouldRestart, inst,
                   sinceStop, sinceStart, fail, last>>

\* The callback onerror passed to setTimeout runs: the oldest timer, once its
\* delay has elapsed.
TimerFire ==
    /\ timers # <<>>
    /\ Head(timers).elapsed
    /\ timers' = Tail(timers)
    /\ inst' = PrimStart(inst, recognition)
    /\ fail' = IF Head(timers).seen
               THEN [fail EXCEPT !.attempts = @ + StartCalls(recognition)]
               ELSE fail
    /\ last' = [Did("timer", StartCalls(recognition), 0, <<>>, TRUE)
                  EXCEPT !.raised = PrimStartThrows(inst, recognition) /\ ~RestartGuarded]
    /\ UNCHANGED <<supported, observe, recognition, isRunning, shouldRestart, sinceStop, sinceStart>>

SRNext ==
    \/ StartUnsupported
    \/ StartAlreadyRunning
    \/ StartNew
    \/ Stop
    \/ \E i \in Slots : OnStart(i)
    \/ \E i \in Slots : OnEnd(i)
    \/ \E i \in Slots : OnError(i)
    \/ DelayElapses
    \/ TimerFire

(***************************************************************************)
(* State of the AudioCaptureEngine (other channel), of the streams the     *)
(* display-capture primitive returns, and of the MediaRecorder objects.    *)
(***************************************************************************)
\* Captured streams that may have live tracks at the same time.
MaxStreams == 2
\* MediaRecorder objects that may be alive at the same time.
MaxRec == 3
\* Mix graphs (one per setupAudioMixing call) that may be alive at the same time.
MaxGraphs == 2
\* startSystemAudio() calls that may await the user's consent at the same time.
MaxPending == 1
\* Audio samples that arrive in one behaviour.
MaxSamples == 2
\* Recorder events that may be queued at the same time.
MaxQueue == 2
\* Rotation intervals that may stay armed with no field referring to them.
MaxLeaked == 1

VARIABLES
    systemStream,        \* this.systemStream: 0 (null) or a stream
    streams,             \* the tracks of each captured stream
    recorders,           \* this.recorders: a sequence of recorder ids
    rec,                 \* the MediaRecorder objects
    recorderChunks,      \* this.recorderChunks: <<chunks of slot 0, chunks of slot 1>>
    activeRecorderIndex, \* this.activeRecorderIndex
    switchInterval,      \* this.switchInterval is armed (not null)
    leakedIntervals,     \* armed intervals that no field refers to
    audioContext,        \* this.audioContext: "null" or "running"
    sourceNode,          \* this.sourceNode: 0 (null) or the graph it belongs to
    inputGainNode,       \* this.inputGainNode
    destinationNode,     \* this.destinationNode
    analyserNode,        \* this.analyserNode
    keepAliveOscillator, \* this.keepAliveOscillator
    oscRunning,          \* graphs whose keep-alive oscillator is started and not stopped
    pending,             \* startSystemAudio() calls awaiting getDisplayMedia
    flushQ,              \* queued recorder events (dataavailable, then stop), oldest first
    out,                 \* the blobs of the chunks handed to onChunkCallback, oldest first
    stamps,              \* the timestamps of these chunks
    clock,               \* Date.now()
    nextSample,          \* the next audio sample to arrive
    heard,               \* history: samples that arrived at a stream while its pool existed
    acLast,              \* history: what the last operation of the engine did
    micStream,           \* this.micStream: "null", or a stream that is "live" or "ended"
    micPending,          \* startMicrophone() calls awaiting getUserMedia
    sink                 \* the last AudioCaptureState given to onStateChange

acVars == <<systemStream, streams, recorders, rec, recorderChunks, activeRecorderIndex,
            switchInterval, leakedIntervals, audioContext, sourceNode, inputGainNode,
            destinationNode, analyserNode, keepAliveOscillator, oscRunning, pending,
            flushQ, out, stamps, nextSample, heard, acLast, micStream, micPending,
            sink>>

VARIABLES
    analyser,            \* RecordingControl's `analyser` state: 0 (null) or a graph
    apiKeyProp,          \* RecordingControl's groqApiKey prop in the current render
    engineCreated        \* audioCaptureRef.current is not null

controlVars == <<analyser, apiKeyProp, engineCreated>>

\* The microphone side of the engine.
micVars == <<micStream, micPending>>

\* The fields of the engine object.
engineFields == <<systemStream, recorders, recorderChunks, activeRecorderIndex,
                  switchInterval, audioContext, sourceNode, inputGainNode,
                  destinationNode, analyserNode, keepAliveOscillator>>

\* getState() with this.micStream = mic and this.systemStream = sys.
StateOf(mic, sys, strms) ==
    [micActive |-> mic = "live",
     systemAudioActive |-> sys # 0 /\ (strms[sys].aLive \/ strms[sys].vLive)]

StreamIds == 1..MaxStreams
RecIds == 1..MaxRec
GraphIds == 1..MaxGraphs

\* A stream whose tracks are all ended (or a stream that does not exist yet).
NoStream == [audio |-> 0, aLive |-> FALSE, vLive |-> FALSE, vEnabled |-> FALSE,
             hooked |-> FALSE]

\* A MediaRecorder that is not recording and that nothing refers to.
NoRec == [st |-> "inactive", src |-> 0, mode |-> "dual", index |-> 0, buf |-> <<>>]

\* MediaStream.active: some track of the stream is not ended.
StreamActive(strms, s) == strms[s].aLive \/ strms[s].vLive

\* getState().systemAudioActive
systemAudioActive == systemStream # 0 /\ StreamActive(streams, systemStream)

\* The stream getDisplayMedia returns, with `n` audio tracks and one video track.
NewStream(n) == [audio |-> n, aLive |-> n > 0, vLive |-> TRUE, vEnabled |-> TRUE,
                 hooked |-> FALSE]

\* The elements of a sequence.
Range(q) == {q[k] : k \in 1..Len(q)}

\* The concatenation of the blobs of a sequence of blobs.
RECURSIVE Flatten(_)
Flatten(q) == IF q = <<>> THEN <<>> ELSE Head(q) \o Flatten(Tail(q))

\* The number of times x occurs in the sequence q.
RECURSIVE Occurrences(_, _)
Occurrences(x, q) ==
    IF q = <<>> THEN 0
    ELSE (IF Head(q) = x THEN 1 ELSE 0) + Occurrences(x, Tail(q))

\* stopSystemAudio stops a recorder whatever its state.
StopsAnyRecorder(st) == TRUE

\* stopSystemAudio: `if (rec && rec.state !== "inactive")`
StopsRecorder(st) == st # "inactive"

\* The zero-audio-track check is missing.
NoAudioTrackNever(n) == FALSE

\* startSystemAudio: `if (audioTracks.length === 0)`
NoAudioTrack(n) == n = 0

\* A stream slot for a new capture: no track of it is live, the engine does not
\* refer to it and no recorder records it.
FreeStreams ==
    {s \in StreamIds : /\ s # systemStream
                       /\ ~StreamActive(streams, s)
                       /\ \A r \in RecIds : rec[r].st = "recording" => rec[r].src # s}

\* Recorder objects free for `new MediaRecorder`.
FreeRecs(rc, held) == {r \in RecIds : rc[r].st = "inactive" /\ r \notin held}

\* Graph ids no node field, no running oscillator and no state of the control
\* refers to: a node that is created is none of the nodes something holds.
FreeGraphs ==
    GraphIds \ ({sourceNode, inputGainNode, destinationNode, analyserNode,
                 keepAliveOscillator, analyser} \cup oscRunning)

\* The least element of a non-empty set of numbers.
Least(S) == CHOOSE x \in S : \A y \in S : x <= y

\* Recorders that nothing refers to and that are not recording are garbage.
Collect(rc, held) ==
    [r \in RecIds |-> IF rc[r].st = "inactive" /\ r \notin held THEN NoRec ELSE rc[r]]

\* The event MediaRecorder.stop() queues for recorder r: its buffered data.
FlushOf(rc, r) == [mode |-> rc[r].mode, index |-> rc[r].index, data |-> rc[r].buf]

ACInit ==
    /\ systemStream = 0
    /\ streams = [s \in StreamIds |-> NoStream]
    /\ recorders = <<>>
    /\ rec = [r \in RecIds |-> NoRec]
    /\ recorderChunks = << <<>>, <<>> >>
    /\ activeRecorderIndex = 0
    /\ switchInterval = FALSE
    /\ leakedIntervals = 0
    /\ audioContext = "null"
    /\ sourceNode = 0
    /\ inputGainNode = 0
    /\ destinationNode = 0
    /\ analyserNode = 0
    /\ keepAliveOscillator = 0
    /\ oscRunning = {}
    /\ pending = 0
    /\ flushQ = <<>>
    /\ out = <<>>
    /\ stamps = <<>>
    /\ nextSample = 1
    /\ heard = {}
    /\ acLast = [op |-> "init", prev |-> "init", ret |-> FALSE, raised |-> FALSE,
                 created |-> {}, audio |-> 0, stream |-> 0, changed |-> FALSE,
                 mic |-> "null", cold |-> FALSE, sys |-> 0, waiting |-> FALSE]
    /\ micStream = "null"
    /\ micPending = 0
    /\ sink = [micActive |-> FALSE, systemAudioActive |-> FALSE]

\* What an operation of the engine did: its name, the operation before it, its
\* return value, whether it raised, what it created, for a start the number
\* of audio tracks of the captured stream and the stream, the microphone
\* stream before it, whether it found a keep-alive oscillator that was created
\* and never started, this.systemStream before it, and for stopMicrophone()
\* whether a startMicrophone() call was awaiting its stream.
ACDid(op, ret, raised, created, audio, stream, changed) ==
    [op |-> op, prev |-> acLast.op, ret |-> ret, raised |-> raised,
     created |-> created, audio |-> audio, stream |-> stream, changed |-> changed,
     mic |-> micStream,
     cold |-> keepAliveOscillator # 0 /\ keepAliveOscillator \notin oscRunning,
     sys |-> systemStream, waiting |-> FALSE]

\* `this.recorders.forEach(rec => { if (...) rec.stop() })` over the recorders
\* ids, from acc = [rc, fq, raised]: stop() makes a recorder inactive and queues
\* its events; on an inactive recorder it throws and ends the loop.
RECURSIVE StopRun(_, _)
StopRun(ids, acc) ==
    IF ids = <<>> \/ acc.raised THEN acc
    ELSE LET r == Head(ids) IN
         IF ~StopsRecorder(acc.rc[r].st) THEN StopRun(Tail(ids), acc)
         ELSE IF acc.rc[r].st = "inactive" THEN [acc EXCEPT !.raised = TRUE]
         ELSE StopRun(Tail(ids),
                      [rc |-> [acc.rc EXCEPT ![r].st = "inactive", ![r].buf = <<>>],
                       fq |-> Append(acc.fq, FlushOf(acc.rc, r)),
                       raised |-> FALSE])

\* The loop of stopSystemAudio over this.recorders.
StopLoop(rc, fq) == StopRun(recorders, [rc |-> rc, fq |-> fq, raised |-> FALSE])

\* keepAliveOscillator.stop() is called bare.
OscillatorStopBare == FALSE

\* `try { this.keepAliveOscillator.stop(); } catch { }`
OscillatorStopGuarded == TRUE

\* OscillatorNode.stop() throws on an oscillator that was never started; the
\* exception leaves stopSystemAudio when nothing catches it.
OscillatorRaises ==
    /\ keepAliveOscillator # 0
    /\ keepAliveOscillator \notin oscRunning
    /\ ~OscillatorStopGuarded

\* Whether stopSystemAudio() raises, with the recorder objects rc.
StopRaises(rc, fq) == StopLoop(rc, fq).raised \/ OscillatorRaises

\* The body of stopSystemAudio(), run with this.systemStream = sys, the streams
\* strms, the recorder objects rc, the event queue fq, this.micStream = mic and
\* the sink's state snk. When a call in it throws, the statements after it are
\* not run.
StopSystemAudioBody(sys, strms, rc, fq, mic, snk) ==
    LET run == StopLoop(rc, fq) IN
    /\ switchInterval' = FALSE
    /\ flushQ' = run.fq
    /\ IF run.raised
       THEN /\ rec' = run.rc
            /\ systemStream' = sys
            /\ streams' = strms
            /\ sink' = snk
            /\ UNCHANGED <<recorders, recorderChunks, sourceNode, inputGainNode,
                           destinationNode, analyserNode, keepAliveOscillator,
                           oscRunning>>
       ELSE IF OscillatorRaises
       THEN /\ rec' = Collect(run.rc, {})
            /\ recorders' = <<>>
            /\ recorderChunks' = << <<>>, <<>> >>
            /\ systemStream' = sys
            /\ streams' = strms
            /\ sink' = snk
            /\ UNCHANGED <<sourceNode, inputGainNode, destinationNode, analyserNode,
                           keepAliveOscillator, oscRunning>>
       ELSE /\ rec' = Collect(run.rc, {})
            /\ recorders' = <<>>
            /\ recorderChunks' = << <<>>, <<>> >>
            /\ oscRunning' = oscRunning \ {keepAliveOscillator}
            /\ keepAliveOscillator' = 0
            /\ sourceNode' = 0
            /\ destinationNode' = 0
            /\ inputGainNode' = 0
            /\ analyserNode' = 0
            /\ streams' = IF sys # 0 THEN [strms EXCEPT ![sys] = NoStream] ELSE strms
            /\ systemStream' = 0
            /\ sink' = StateOf(mic, 0, strms)
    /\ UNCHANGED <<activeRecorderIndex, leakedIntervals>>

\* The number of recorders of this.recorders that are recording.
Recording(rc) == Cardinality({r \in Range(recorders) : rc[r].st = "recording"})

\* stopSystemAudio()
StopSystemAudio ==
    /\ Len(flushQ) + Recording(rec) <= MaxQueue
    /\ audioContext' = audioContext
    /\ StopSystemAudioBody(systemStream, streams, rec, flushQ, micStream, sink)
    /\ acLast' = ACDid("stopSystemAudio", TRUE, StopRaises(rec, flushQ), {}, 0, 0,
                       <<engineFields, streams, rec, oscRunning, flushQ>>'
                           # <<engineFields, streams, rec, oscRunning, flushQ>>)
    /\ UNCHANGED <<pending, out, stamps, nextSample, heard, micVars>>

\* startSystemAudio(), up to `await navigator.mediaDevices.getDisplayMedia(...)`.
StartSystemAudio ==
    /\ pending < MaxPending
    /\ pending' = pending + 1
    /\ audioContext' = "running"
    /\ acLast' = ACDid("startSystemAudio.await", FALSE, FALSE, {}, 0, 0,
                       audioContext' # audioContext)
    /\ UNCHANGED <<systemStream, streams, recorders, rec, recorderChunks,
                   activeRecorderIndex, switchInterval, leakedIntervals, sourceNode,
                   inputGainNode, destinationNode, analyserNode, keepAliveOscillator,
                   oscRunning, flushQ, out, stamps, nextSample, heard, micVars, sink>>

\* getDisplayMedia rejects (the user declines): startSystemAudio() returns false.
DisplayMediaRejected ==
    /\ pending > 0
    /\ pending' = pending - 1
    /\ acLast' = ACDid("startSystemAudio", FALSE, FALSE, {}, 0, 0, FALSE)
    /\ UNCHANGED <<systemStream, streams, recorders, rec, recorderChunks,
                   activeRecorderIndex, switchInterval, leakedIntervals, audioContext,
                   sourceNode, inputGainNode, destinationNode, analyserNode,
                   keepAliveOscillator, oscRunning, flushQ, out, stamps, nextSample, heard,
                   micVars, sink>>

\* The steps of setupAudioMixing, in order; `done` of them complete before one
\* throws: 1 createMediaStreamSource, 2 createMediaStreamDestination, 3 createGain,
\* 4 createAnalyser, 5 createOscillator, 6 keepAliveOscillator.start(),
\* 7 startDualRecording.
GraphSteps == 7

\* What setupAudioMixing and the recording it starts created.
Created(done, simpleThrows) ==
    IF audioContext = "null" THEN {} ELSE
    (IF done >= 1 THEN {"source"} ELSE {}) \cup
    (IF done >= 2 THEN {"destination"} ELSE {}) \cup
    (IF done >= 3 THEN {"gain"} ELSE {}) \cup
    (IF done >= 4 THEN {"analyser"} ELSE {}) \cup
    (IF done >= 5 THEN {"oscillator"} ELSE {}) \cup
    (IF done >= GraphSteps THEN {"recorder", "timer"} ELSE {}) \cup
    (IF done < GraphSteps /\ ~simpleThrows THEN {"recorder"} ELSE {})

\* Whether startSystemAudio() returns false after a stream with audio was
\* captured: the graph failed and the fallback recorder threw too.
StartFails(done, simpleThrows) ==
    audioContext # "null" /\ done < GraphSteps /\ simpleThrows

\* setupAudioMixing(stream s) with `done` steps completing, then the rest of
\* startSystemAudio(). g is the new graph; strms holds the captured stream.
SetupAudioMixing(s, strms, done, simpleThrows) ==
    IF audioContext = "null"
    THEN \* `if (!this.audioContext) return;`
         /\ systemStream' = s
         /\ streams' = [strms EXCEPT ![s].hooked = TRUE]
         /\ sink' = StateOf(micStream, s, strms)
         /\ UNCHANGED <<sourceNode, destinationNode, inputGainNode, analyserNode,
                        keepAliveOscillator, oscRunning, recorders, rec,
                        activeRecorderIndex, leakedIntervals, switchInterval,
                        recorderChunks, flushQ>>
    ELSE LET g == Least(FreeGraphs)
             rc0 == Collect(rec, {})
             r0 == Least(FreeRecs(rc0, {}))
             r1 == Least(FreeRecs(rc0, {}) \ {r0})
         IN
         /\ done >= 1 => FreeGraphs # {}
         /\ sourceNode' = IF done >= 1 THEN g ELSE sourceNode
         /\ destinationNode' = IF done >= 2 THEN g ELSE destinationNode
         /\ inputGainNode' = IF done >= 3 THEN g ELSE inputGainNode
         /\ analyserNode' = IF done >= 4 THEN g ELSE analyserNode
         /\ keepAliveOscillator' = IF done >= 5 THEN g ELSE keepAliveOscillator
         /\ oscRunning' = IF done >= 6 THEN oscRunning \cup {g} ELSE oscRunning
         /\ IF done >= GraphSteps
            THEN \* startDualRecording
                 /\ Cardinality(FreeRecs(rc0, {})) >= 2
                 /\ recorders' = <<r0, r1>>
                 /\ rec' = [rc0 EXCEPT
                              ![r0] = [st |-> "recording", src |-> s, mode |-> "dual",
                                       index |-> 0, buf |-> <<>>],
                              ![r1] = [st |-> "inactive", src |-> s, mode |-> "dual",
                                       index |-> 1, buf |-> <<>>]]
                 /\ activeRecorderIndex' = 0
                 /\ leakedIntervals' = leakedIntervals + (IF switchInterval THEN 1 ELSE 0)
                 /\ leakedIntervals' <= MaxLeaked
                 /\ switchInterval' = TRUE
            ELSE IF simpleThrows
            THEN \* startSimpleRecording throws before this.recorders is assigned
                 UNCHANGED <<recorders, rec, activeRecorderIndex, leakedIntervals,
                             switchInterval>>
            ELSE \* startSimpleRecording
                 /\ FreeRecs(rc0, {}) # {}
                 /\ recorders' = <<r0>>
                 /\ rec' = [rc0 EXCEPT ![r0] = [st |-> "recording", src |-> s,
                                                mode |-> "simple", index |-> 0,
                                                buf |-> <<>>]]
                 /\ UNCHANGED <<activeRecorderIndex, leakedIntervals, switchInterval>>
         /\ systemStream' = s
         /\ streams' = IF done < GraphSteps /\ simpleThrows THEN strms
                       ELSE [strms EXCEPT ![s].hooked = TRUE]
         /\ sink' = IF done < GraphSteps /\ simpleThrows THEN sink
                    ELSE StateOf(micStream, s, strms)
         /\ UNCHANGED <<recorderChunks, flushQ>>

\* getDisplayMedia resolves with a stream of n audio tracks: the rest of
\* startSystemAudio(). dones are the numbers of steps of setupAudioMixing that
\* the platform may complete, throws whether startSimpleRecording may throw.
DisplayMediaResolved(dones, throws) ==
    /\ pending > 0
    /\ FreeStreams # {}
    /\ pending' = pending - 1
    /\ audioContext' = audioContext
    /\ \E n \in 0..1, done \in dones, simpleThrows \in throws :
        LET s == Least(FreeStreams)
            strms0 == [streams EXCEPT ![s] = NewStream(n)]
        IN
        IF NoAudioTrack(n)
        THEN /\ Len(flushQ) + Recording(rec) <= MaxQueue
             /\ StopSystemAudioBody(s, strms0, rec, flushQ, micStream, sink)
             /\ acLast' = ACDid("startSystemAudio", FALSE, FALSE, {}, n, s,
                                engineFields' # engineFields)
        ELSE /\ SetupAudioMixing(s, [strms0 EXCEPT ![s].vEnabled = FALSE],
                                 done, simpleThrows)
             /\ acLast' = ACDid("startSystemAudio", ~StartFails(done, simpleThrows),
                                FALSE, Created(done, simpleThrows), n, s,
                                engineFields' # engineFields)
    /\ UNCHANGED <<out, stamps, nextSample, heard, micVars>>

\* The rotation tick starts the next recorder whatever its state.
TickNeverStartsNext(st) == FALSE

\* The rotation tick: `if (this.recorders[nextIndex].state === "inactive")`
TickStartsNext(st) == st = "inactive"

\* The rotation tick keeps the active index.
NextIndexStays(i) == i

\* The rotation tick: `(this.activeRecorderIndex + 1) % 2`
NextIndex(i) == (i + 1) % 2

\* The callback of setInterval in startDualRecording, run by any armed interval.
\* With fewer than two recorders, `this.recorders[...]` is undefined and the
\* callback throws before it changes anything.
Tick ==
    /\ switchInterval \/ leakedIntervals > 0
    /\ Len(flushQ) < MaxQueue
    /\ LET nextIndex == NextIndex(activeRecorderIndex)
           currentIndex == activeRecorderIndex
       IN
       IF Len(recorders) < 2
       THEN /\ acLast' = ACDid("tick", FALSE, TRUE, {}, 0, 0, FALSE)
            /\ UNCHANGED <<rec, flushQ, activeRecorderIndex>>
       ELSE LET n == recorders[nextIndex + 1]
                c == recorders[currentIndex + 1]
                rc1 == IF TickStartsNext(rec[n].st)
                       THEN [rec EXCEPT ![n].st = "recording", ![n].buf = <<>>]
                       ELSE rec
            IN
            /\ rec' = IF rc1[c].st # "inactive"
                      THEN [rc1 EXCEPT ![c].st = "inactive", ![c].buf = <<>>]
                      ELSE rc1
            /\ flushQ' = IF rc1[c].st # "inactive"
                         THEN Append(flushQ, FlushOf(rc1, c)) ELSE flushQ
            /\ activeRecorderIndex' = nextIndex
            /\ acLast' = ACDid("tick", TRUE, FALSE, {}, 0, 0, TRUE)
    /\ UNCHANGED <<systemStream, streams, recorders, recorderChunks, switchInterval,
                   leakedIntervals, audioContext, sourceNode, inputGainNode,
                   destinationNode, analyserNode, keepAliveOscillator, oscRunning,
                   pending, out, stamps, nextSample, heard, micVars, sink>>

\* An audio sample arrives on stream s: every recorder that records s buffers it.
AudioSample(s) ==
    /\ nextSample <= MaxSamples
    /\ streams[s].aLive
    /\ \E r \in RecIds : rec[r].src = s /\ (rec[r].st = "recording" \/ r \in Range(recorders))
    /\ rec' = [r \in RecIds |->
                 IF rec[r].st = "recording" /\ rec[r].src = s
                 THEN [rec[r] EXCEPT !.buf = Append(@, nextSample)] ELSE rec[r]]
    /\ heard' = IF \E r \in Range(recorders) : rec[r].src = s
                THEN heard \cup {nextSample} ELSE heard
    /\ nextSample' = nextSample + 1
    /\ UNCHANGED <<systemStream, streams, recorders, recorderChunks,
                   activeRecorderIndex, switchInterval, leakedIntervals, audioContext,
                   sourceNode, inputGainNode, destinationNode, analyserNode,
                   keepAliveOscillator, oscRunning, pending, flushQ, out, stamps, acLast,
                   micVars, sink>>

\* ondataavailable pushes the blob to the chunks of slot 0, whatever the slot
\* of the recorder.
OnDataAvailableOneSlot(chunks, index, data) ==
    IF Len(data) > 0 THEN [chunks EXCEPT ![1] = Append(@, data)] ELSE chunks

\* recorder.ondataavailable of startDualRecording: a non-empty blob is pushed to
\* the chunks of the recorder's slot.
OnDataAvailable(chunks, index, data) ==
    IF Len(data) > 0 THEN [chunks EXCEPT ![index + 1] = Append(@, data)] ELSE chunks

\* recorder.onstop leaves the chunks of the slot as they are.
OnStopKeeps(chunks, index) == chunks

\* recorder.onstop: `this.recorderChunks[index] = []`
OnStopClears(chunks, index) == [chunks EXCEPT ![index + 1] = <<>>]

\* The clock read runs backwards.
DateNowBackwards == 0 - clock

\* `timestamp: Date.now()`
DateNow == clock

\* The queued events of a stopped recorder (or the timeslice event of the
\* fallback recorder) are delivered: dataavailable, then stop, in one task. The
\* chunk handed to the callback is {blob, timestamp: Date.now()}.
RecorderFlushed ==
    /\ flushQ # <<>>
    /\ LET e == Head(flushQ)
           got == OnDataAvailable(recorderChunks, e.index, e.data)
           blob == Flatten(got[e.index + 1])
       IN
       /\ flushQ' = Tail(flushQ)
       /\ IF e.mode = "dual"
          THEN /\ recorderChunks' = OnStopClears(got, e.index)
               /\ out' = IF Len(blob) > 0 THEN Append(out, blob) ELSE out
          ELSE /\ recorderChunks' = recorderChunks
               /\ out' = IF Len(e.data) > 0 THEN Append(out, e.data) ELSE out
    /\ stamps' = IF out' # out THEN Append(stamps, DateNow) ELSE stamps
    /\ UNCHANGED <<systemStream, streams, recorders, rec, activeRecorderIndex,
                   switchInterval, leakedIntervals, audioContext, sourceNode,
                   inputGainNode, destinationNode, analyserNode, keepAliveOscillator,
                   oscRunning, pending, nextSample, heard, acLast, micVars, sink>>

\* The 3000 ms timeslice of the fallback recorder r elapses: a dataavailable
\* event with what it buffered is queued.
SimpleSlice(r) ==
    /\ rec[r].st = "recording"
    /\ rec[r].mode = "simple"
    /\ rec[r].buf # <<>>
    /\ Len(flushQ) < MaxQueue
    /\ flushQ' = Append(flushQ, FlushOf(rec, r))
    /\ rec' = [rec EXCEPT ![r].buf = <<>>]
    /\ UNCHANGED <<systemStream, streams, recorders, recorderChunks,
                   activeRecorderIndex, switchInterval, leakedIntervals, audioContext,
                   sourceNode, inputGainNode, destinationNode, analyserNode,
                   keepAliveOscillator, oscRunning, pending, out, stamps, nextSample, heard,
                   acLast, micVars, sink>>

\* The fallback recorders that record stream s: a MediaRecorder stops by itself
\* when every track of its stream has ended.
SimpleOn(s) == {r \in RecIds : rec[r].st = "recording" /\ rec[r].mode = "simple"
                               /\ rec[r].src = s}

\* The recorders of the set S stop by themselves: each queues its events.
RECURSIVE AutoStop(_, _)
AutoStop(S, acc) ==
    IF S = {} THEN acc
    ELSE LET r == Least(S) IN
         AutoStop(S \ {r},
                  [rc |-> [acc.rc EXCEPT ![r].st = "inactive", ![r].buf = <<>>],
                   fq |-> Append(acc.fq, FlushOf(acc.rc, r)),
                   raised |-> FALSE])

\* The tracks of stream s end from outside (the user stops sharing): the
\* audio track's onended handler, when startSystemAudio registered one, calls
\* stopSystemAudio().
TrackEnded(s) ==
    /\ StreamActive(streams, s)
    /\ audioContext' = audioContext
    /\ Len(flushQ) + Cardinality(SimpleOn(s)) + Recording(rec) <= MaxQueue
    /\ LET auto == AutoStop(SimpleOn(s), [rc |-> rec, fq |-> flushQ, raised |-> FALSE])
           strms0 == [streams EXCEPT ![s] = NoStream]
       IN
       IF streams[s].hooked
       THEN /\ StopSystemAudioBody(systemStream, strms0, auto.rc, auto.fq, micStream, sink)
            /\ acLast' = ACDid("onended", TRUE, StopRaises(auto.rc, auto.fq),
                               {}, 0, s, engineFields' # engineFields)
       ELSE /\ rec' = Collect(auto.rc, Range(recorders))
            /\ flushQ' = auto.fq
            /\ streams' = strms0
            /\ acLast' = ACDid("ended", TRUE, FALSE, {}, 0, s, FALSE)
            /\ UNCHANGED <<systemStream, recorders, recorderChunks,
                           activeRecorderIndex, switchInterval, leakedIntervals,
                           sourceNode, inputGainNode, destinationNode,
                           analyserNode, keepAliveOscillator, oscRunning, sink>>
    /\ UNCHANGED <<pending, out, stamps, nextSample, heard, micVars>>

\* The fields and objects of the other channel.
systemVars == <<systemStream, streams, recorders, rec, recorderChunks,
                activeRecorderIndex, switchInterval, leakedIntervals, sourceNode,
                inputGainNode, destinationNode, analyserNode, keepAliveOscillator,
                oscRunning, pending, flushQ, out, stamps, nextSample, heard>>

\* startMicrophone(), up to `await navigator.mediaDevices.getUserMedia(...)`.
StartMicrophone ==
    /\ micPending < MaxPending
    /\ micPending' = micPending + 1
    /\ UNCHANGED <<systemVars, audioContext, micStream, sink, acLast>>

\* getUserMedia rejects: startMicrophone() returns false.
UserMediaRejected ==
    /\ micPending > 0
    /\ micPending' = micPending - 1
    /\ acLast' = ACDid("startMicrophone", FALSE, FALSE, {}, 0, 0, FALSE)
    /\ UNCHANGED <<systemVars, audioContext, micStream, sink>>

\* getUserMedia resolves: the stream is assigned and the sink is notified.
UserMediaResolved ==
    /\ micPending > 0
    /\ micPending' = micPending - 1
    /\ micStream' = "live"
    /\ sink' = StateOf("live", systemStream, streams)
    /\ acLast' = ACDid("startMicrophone", TRUE, FALSE, {}, 0, 0, TRUE)
    /\ UNCHANGED <<systemVars, audioContext>>

\* stopMicrophone() stops the other channel too.
StopMicrophoneAndSystem ==
    /\ Len(flushQ) + Recording(rec) <= MaxQueue
    /\ micStream' = "null"
    /\ StopSystemAudioBody(systemStream, streams, rec, flushQ, "null",
                           StateOf("null", systemStream, streams))
    /\ acLast' = ACDid("stopMicrophone", TRUE, FALSE, {}, 0, 0, micStream # "null")
    /\ UNCHANGED <<pending, out, stamps, nextSample, heard, micPending, audioContext>>

\* stopMicrophone()
StopMicrophone ==
    /\ micStream' = "null"
    /\ sink' = StateOf("null", systemStream, streams)
    /\ acLast' = [ACDid("stopMicrophone", TRUE, FALSE, {}, 0, 0, micStream # "null")
                      EXCEPT !.waiting = micPending > 0]
    /\ UNCHANGED <<systemVars, audioContext, micPending>>

\* The track of the microphone stream ends from outside (the device is
\* removed): the engine registers no handler for it.
MicrophoneEnded ==
    /\ micStream = "live"
    /\ micStream' = "ended"
    /\ acLast' = ACDid("micEnded", TRUE, FALSE, {}, 0, 0, FALSE)
    /\ UNCHANGED <<systemVars, audioContext, micPending, sink>>

\* stopAll(): stopMicrophone(), stopSystemAudio(), then the context is closed
\* and dropped.
StopAll ==
    /\ Len(flushQ) + Recording(rec) <= MaxQueue
    /\ micStream' = "null"
    /\ StopSystemAudioBody(systemStream, streams, rec, flushQ, "null",
                           StateOf("null", systemStream, streams))
    /\ audioContext' = IF StopRaises(rec, flushQ) THEN audioContext ELSE "null"
    /\ acLast' = ACDid("stopAll", TRUE, StopRaises(rec, flushQ), {}, 0, 0, TRUE)
    /\ UNCHANGED <<pending, out, stamps, nextSample, heard, micPending>>

\* The engine with the audio that arrives: the graph is built whole or not at
\* all, and the fallback recorder starts.
ACNext ==
    \/ StartSystemAudio
    \/ DisplayMediaRejected
    \/ DisplayMediaResolved({0, GraphSteps}, {FALSE})
    \/ StopSystemAudio
    \/ Tick
    \/ \E s \in StreamIds : AudioSample(s)
    \/ RecorderFlushed
    \/ \E r \in RecIds : SimpleSlice(r)
    \/ \E s \in StreamIds : TrackEnded(s)

\* The engine under every failure of the graph and of the recorders, with no
\* audio arriving.
ACFailNext ==
    \/ StartSystemAudio
    \/ DisplayMediaRejected
    \/ DisplayMediaResolved(0..GraphSteps, BOOLEAN)
    \/ StopSystemAudio
    \/ Tick
    \/ RecorderFlushed
    \/ \E s \in StreamIds : TrackEnded(s)

\* The rotating pool with the audio that arrives: the graph is always built.
ACRotationNext ==
    \/ StartSystemAudio
    \/ DisplayMediaRejected
    \/ DisplayMediaResolved({GraphSteps}, {FALSE})
    \/ StopSystemAudio
    \/ Tick
    \/ \E s \in StreamIds : AudioSample(s)
    \/ RecorderFlushed
    \/ \E s \in StreamIds : TrackEnded(s)

\* The two channels of the engine, with no audio arriving: the graph is built
\* whole or fails when the keep-alive oscillator is to be started, and the
\* fallback recorder starts.
ACChannelsNext ==
    \/ StartSystemAudio
    \/ DisplayMediaRejected
    \/ DisplayMediaResolved({5, GraphSteps}, {FALSE})
    \/ StopSystemAudio
    \/ Tick
    \/ RecorderFlushed
    \/ \E s \in StreamIds : TrackEnded(s)
    \/ StartMicrophone
    \/ UserMediaRejected
    \/ UserMediaResolved
    \/ StopMicrophone
    \/ MicrophoneEnded
    \/ StopAll

(***************************************************************************)
(* RecordingControl (SettingsDialog.tsx): the buttons that drive the other  *)
(* channel and the analyser handle the control keeps for the visualiser.    *)
(* Its systemAudioActive state is the one the status sink last received.    *)
(***************************************************************************)

ControlIdle == analyser = 0 /\ apiKeyProp = "" /\ engineCreated = FALSE

\* toggleSystemAudio(): stopSystemAudio() when the control's state says the
\* channel is active, startSystemAudio() up to its await otherwise.
ToggleSystemAudio ==
    /\ IF sink.systemAudioActive THEN StopSystemAudio ELSE StartSystemAudio
    /\ UNCHANGED controlVars

\* The capture request of toggleSystemAudio() is declined: nothing is set.
ToggleRejected ==
    /\ DisplayMediaRejected
    /\ UNCHANGED controlVars

\* The capture request of toggleSystemAudio() resolves: the rest of
\* startSystemAudio(), then
\* `if (started && audioCaptureRef.current.analyserNode) setAnalyser(...)`.
ToggleResolved ==
    /\ DisplayMediaResolved({0, GraphSteps}, BOOLEAN)
    /\ analyser' = IF acLast'.ret /\ analyserNode' # 0 THEN analyserNode' ELSE analyser
    /\ UNCHANGED <<apiKeyProp, engineCreated>>

\* The control's stopAll(): the engine's stopAll(), then setAnalyser(null).
ControlStopAll ==
    /\ StopAll
    /\ analyser' = 0
    /\ UNCHANGED <<apiKeyProp, engineCreated>>

\* The control and the engine, with no audio arriving.
ControlNext ==
    \/ ToggleSystemAudio
    \/ ToggleRejected
    \/ ToggleResolved
    \/ ControlStopAll
    \/ Tick /\ UNCHANGED controlVars
    \/ RecorderFlushed /\ UNCHANGED controlVars
    \/ \E s \in StreamIds : TrackEnded(s) /\ UNCHANGED controlVars

(***************************************************************************)
(* transcribeWithGroq and its filter. A text is the sequence of its         *)
(* characters; a character that is not ASCII is written as a token: "_go"   *)
(* is hiragana ご, "^chi" katakana チ, "#shi" the kanji 視, "u3000" the       *)
(* ideographic space.                                                      *)
(***************************************************************************)

\* Characters of padding that may surround a phrase in a response.
MaxPad == 1
\* Length of the short texts that are tried exhaustively.
MaxShort == 2

VARIABLES
    response,       \* what fetch produced for the request
    transcript,     \* what transcribeWithGroq returned
    returned        \* whether it has returned

filterVars == <<response, transcript, returned>>

\* "ご視聴ありがとうございました", "チャンネル登録", "高評価", "Thanks for watching",
\* "Please subscribe", "字幕", "おやすみなさい", "視聴ありがとうございました",
\* "最後までご視聴"
WHISPER_HALLUCINATIONS ==
    << <<"_go", "#shi", "#chou", "_a", "_ri", "_ga", "_to", "_u", "_go", "_za", "_i",
         "_ma", "_shi", "_ta">>,
       <<"^chi", "^ya", "^n", "^ne", "^ru", "#tou", "#roku">>,
       <<"#kou", "#hyou", "#ka">>,
       <<"T", "h", "a", "n", "k", "s", " ", "f", "o", "r", " ", "w", "a", "t", "c",
         "h", "i", "n", "g">>,
       <<"P", "l", "e", "a", "s", "e", " ", "s", "u", "b", "s", "c", "r", "i", "b",
         "e">>,
       <<"#ji", "#maku">>,
       <<"_o", "_ya", "_su", "_mi", "_na", "_sa", "_i">>,
       <<"#shi", "#chou", "_a", "_ri", "_ga", "_to", "_u", "_go", "_za", "_i", "_ma",
         "_shi", "_ta">>,
       <<"#sai", "#go", "_ma", "_de", "_go", "#shi", "#chou">> >>

\* The characters String.prototype.trim removes: white space and line
\* terminators.
WhiteSpace == {" ", "\t", "\n", "u3000"}

\* The value null of transcribeWithGroq, and a returned text.
Null == [null |-> TRUE, text |-> <<>>]
Text(t) == [null |-> FALSE, text |-> t]

RECURSIVE TrimStart(_)
TrimStart(t) ==
    IF t # <<>> /\ Head(t) \in WhiteSpace THEN TrimStart(Tail(t)) ELSE t

RECURSIVE TrimEnd(_)
TrimEnd(t) ==
    IF t # <<>> /\ t[Len(t)] \in WhiteSpace THEN TrimEnd(SubSeq(t, 1, Len(t) - 1))
    ELSE t

\* The response text is used as it came.
NoTrim(t) == t

\* `data.text?.trim()`
Trim(t) == TrimEnd(TrimStart(t))

\* text.startsWith(h)
StartsWith(t, h) == Len(h) <= Len(t) /\ SubSeq(t, 1, Len(h)) = h

\* `text.includes(h)`: h occurs in t from some position on, compared character
\* by character.
RECURSIVE Includes(_, _)
Includes(t, h) ==
    \/ StartsWith(t, h)
    \/ t # <<>> /\ Includes(Tail(t), h)

\* `WHISPER_HALLUCINATIONS.some((h) => text.includes(h))`
IsHallucination(t) ==
    \E k \in 1..Len(WHISPER_HALLUCINATIONS) : Includes(t, WHISPER_HALLUCINATIONS[k])

\* A response of fetch: it threw, or it carries a status and a body; the body
\* may be no JSON (response.json() throws), and its text may be missing.
Threw == [kind |-> "throw", hasText |-> FALSE, text |-> <<>>]
HttpError == [kind |-> "status", hasText |-> FALSE, text |-> <<>>]
NoTextBody == [kind |-> "ok", hasText |-> FALSE, text |-> <<>>]
MalformedBody == [kind |-> "malformed", hasText |-> FALSE, text |-> <<>>]
Body(t) == [kind |-> "ok", hasText |-> TRUE, text |-> t]

\* What throws inside transcribeWithGroq: fetch, or response.json().
ThrowsInside(resp) == resp.kind \in {"throw", "malformed"}

\* The try block covers only the fetch.
CatchesFetchOnly(resp) == resp.kind = "throw"

\* `try { ... } catch (error) { ...; return null; }` encloses the fetch, the
\* reading of the body and the filter.
Catches(resp) == TRUE

\* Whether an exception leaves transcribeWithGroq (its promise rejects).
Escapes(groqKey, resp) == groqKey # "" /\ ThrowsInside(resp) /\ ~Catches(resp)

\* transcribeWithGroq(audioBlob, groqApiKey), given what fetch produces.
transcribeWithGroq(groqKey, resp) ==
    IF groqKey = "" THEN Null
    ELSE IF resp.kind = "throw" THEN Null
    ELSE IF resp.kind # "ok" THEN Null
    ELSE IF ~resp.hasText THEN Null
    ELSE LET text == Trim(resp.text) IN
         IF text = <<>> THEN Null
         ELSE IF IsHallucination(text) THEN Null
         ELSE Text(text)

\* "よろしくお願いします"
Greeting == <<"_yo", "_ro", "_shi", "_ku", "_o", "#negai", "_i", "_shi", "_ma", "_su">>

\* "thanks for watching"
LowerCased ==
    <<"t", "h", "a", "n", "k", "s", " ", "f", "o", "r", " ", "w", "a", "t", "c", "h",
      "i", "n", "g">>

\* The sequences of at most n elements of A.
SeqsUpTo(A, n) == UNION {[1..k -> A] : k \in 0..n}

\* The texts the service is made to return: every denylist phrase, each phrase
\* with its first or its last character missing, a phrase in another case and a
\* phrase of no list, each alone and with padding before and after; and every
\* short text over a few characters.
Phrases ==
    {WHISPER_HALLUCINATIONS[k] : k \in 1..Len(WHISPER_HALLUCINATIONS)}
    \cup {Tail(WHISPER_HALLUCINATIONS[k]) : k \in 1..Len(WHISPER_HALLUCINATIONS)}
    \cup {SubSeq(WHISPER_HALLUCINATIONS[k], 1, Len(WHISPER_HALLUCINATIONS[k]) - 1) :
            k \in 1..Len(WHISPER_HALLUCINATIONS)}
    \cup {Greeting, LowerCased}

Pads == SeqsUpTo({" ", "u3000", "x"}, MaxPad)

Texts ==
    {p \o h \o q : p \in Pads, h \in Phrases, q \in Pads}
    \cup SeqsUpTo({" ", "\n", "#ji", "#maku", "a"}, MaxShort)

Responses == {Threw, HttpError, NoTextBody, MalformedBody} \cup {Body(t) : t \in Texts}

\* No request is made.
FilterIdle ==
    /\ response = Threw
    /\ transcript = Null
    /\ returned = FALSE

FilterInit ==
    /\ response \in Responses
    /\ transcript = Null
    /\ returned = FALSE

\* The request completes and transcribeWithGroq returns.
Transcribe ==
    /\ ~returned
    /\ transcript' = transcribeWithGroq("gsk", response)
    /\ returned' = TRUE
    /\ UNCHANGED response

(***************************************************************************)
(* The dispatch of the segments: handleAudioChunk, the transcription        *)
(* requests in flight and addLog.                                          *)
(***************************************************************************)

\* Segments the capture engine hands over.
MaxSegments == 3
\* Ticks of the wall clock.
MaxClock == 3
\* Ticks of the wall clock in one minute, the resolution of LogItem.time.
TicksPerMinute == 2

VARIABLES
    groqApiKey,     \* the key handleAudioChunk closes over
    chunks,         \* the SystemAudioChunks handed to onChunk, in order
    inflight,       \* the segments whose transcription request is pending
    answers,        \* history: the segments whose request completed, in order,
                    \* and whether the other channel was still captured then,
                    \* with what transcribeWithGroq returned
    logs,           \* state.logs
    aiBuffer        \* state.aiBuffer

dispatchVars == <<clock, groqApiKey, chunks, inflight, answers, logs, aiBuffer>>

Segments == 1..MaxSegments

\* What the speaker says in segment k: a text of k characters.
Utterance(k) == [i \in 1..k |-> "a"]

\* `new Date().toLocaleTimeString("ja-JP", {hour: "2-digit", minute: "2-digit"})`
\* at the moment `now`: the hour and the minute, the seconds dropped.
toLocaleTimeString(now) == now \div TicksPerMinute

\* addLog(text, speaker): the new logs and aiBuffer.
addLog(text, speaker) ==
    [logs |-> Append(logs, [time |-> toLocaleTimeString(clock), text |-> text,
                            speaker |-> speaker]),
     aiBuffer |-> aiBuffer \o text \o <<"\n">>]

DispatchIdle ==
    /\ clock = 0
    /\ groqApiKey = ""
    /\ chunks = <<>>
    /\ inflight = {}
    /\ answers = <<>>
    /\ logs = <<>>
    /\ aiBuffer = <<>>

DispatchInit ==
    /\ clock = 0
    /\ groqApiKey \in {"", "gsk"}
    /\ chunks = <<>>
    /\ inflight = {}
    /\ answers = <<>>
    /\ logs = <<>>
    /\ aiBuffer = <<>>

\* Time passes.
Tock ==
    /\ clock < MaxClock
    /\ clock' = clock + 1
    /\ UNCHANGED <<groqApiKey, chunks, inflight, answers, logs, aiBuffer>>

\* The engine emits a segment: onChunkCallback({blob, timestamp: Date.now()}),
\* that is handleAudioChunk up to `await transcribeWithGroq(...)`.
HandleAudioChunk ==
    /\ Len(chunks) < MaxSegments
    /\ chunks' = Append(chunks, [blob |-> Len(chunks) + 1, timestamp |-> clock])
    /\ inflight' = IF groqApiKey = "" THEN inflight
                   ELSE inflight \cup {Len(chunks) + 1}
    /\ UNCHANGED <<clock, groqApiKey, answers, logs, aiBuffer>>

\* The request of segment k completes with resp: the rest of handleAudioChunk,
\* `if (text) onOtherTranscript(text)`, that is addLog(text, "other").
TranscriptionReturns(k, resp) ==
    /\ k \in inflight
    /\ inflight' = inflight \ {k}
    /\ LET text == transcribeWithGroq(groqApiKey, resp)
           added == addLog(text.text, "other")
       IN
       /\ answers' = Append(answers, [seg |-> k, text |-> text, resp |-> resp,
                                      raised |-> Escapes(groqApiKey, resp),
                                      live |-> systemStream # 0])
       /\ logs' = IF text.null \/ Escapes(groqApiKey, resp) THEN logs ELSE added.logs
       /\ aiBuffer' = IF text.null \/ Escapes(groqApiKey, resp) THEN aiBuffer
                     ELSE added.aiBuffer
    /\ UNCHANGED <<clock, groqApiKey, chunks>>

\* What the service may answer for segment k: the utterance, the utterance
\* with white space around it, a phrase of the denylist, or a failure (a
\* status that is not OK, a network error, a body that is no JSON or has no
\* text).
AnswersFor(k) ==
    {Body(Utterance(k)), Body(<<" ">> \o Utterance(k) \o <<"\n">>),
     Body(WHISPER_HALLUCINATIONS[6]), HttpError, Threw, MalformedBody, NoTextBody}

DispatchNext ==
    \/ Tock
    \/ HandleAudioChunk
    \/ \E k \in Segments : \E resp \in AnswersFor(k) : TranscriptionReturns(k, resp)

(***************************************************************************)
(* The results of the recognition: the onresult handler, the interim       *)
(* preview and the transcript log.                                         *)
(***************************************************************************)

\* Results one SpeechRecognitionEvent carries.
MaxResults == 2
\* Items the transcript log holds.
MaxLog == 2
\* Segments that are transcribed while the recognition delivers results.
MaxOther == 1

VARIABLES
    interimText,    \* the page's interimText state (the visible preview)
    lastEvent,      \* history: the last SpeechRecognitionEvent delivered
    lastCalls,      \* history: the callbacks the handler invoked for it, in order
    expected        \* history: what each source delivered for the log, in order

resultVars == <<interimText, lastEvent, lastCalls, expected>>

\* The transcripts the primitive reports.
Transcripts == {<<>>, <<"k">>, <<"m">>}

\* event.results: each result is final or not and carries a transcript.
ResultLists ==
    UNION {[1..n -> [isFinal : BOOLEAN, transcript : Transcripts]] : n \in 1..MaxResults}

\* The SpeechRecognitionEvents: resultIndex is the index (from 0) of the first
\* result that changed.
Events ==
    {[resultIndex |-> i, results |-> r] :
        r \in ResultLists, i \in 0..(MaxResults - 1)} \ 
    {[resultIndex |-> i, results |-> r] :
        r \in {q \in ResultLists : Len(q) < MaxResults}, i \in 1..(MaxResults - 1)}

NoEvent == [resultIndex |-> 0, results |-> <<>>]

\* The loop of onresult from index i (from 0) on: the transcripts of the
\* results whose isFinal is `final`, appended in index order.
RECURSIVE Accumulate(_, _, _)
Accumulate(event, i, final) ==
    IF i >= Len(event.results) THEN <<>>
    ELSE (IF event.results[i + 1].isFinal = final
          THEN event.results[i + 1].transcript ELSE <<>>)
         \o Accumulate(event, i + 1, final)

\* The final text is delivered and the preview is left as it is.
FinalOnly(finalText) == <<[cb |-> "onFinalResult", text |-> finalText]>>

\* `this.callbacks.onFinalResult(finalText); this.callbacks.onInterimResult("")`
FinalThenClear(finalText) ==
    <<[cb |-> "onFinalResult", text |-> finalText],
      [cb |-> "onInterimResult", text |-> <<>>]>>

\* onresult drops a final text that holds a phrase of the denylist.
onresultFiltered(event) ==
    LET finalText == Accumulate(event, event.resultIndex, TRUE)
        interim == Accumulate(event, event.resultIndex, FALSE)
    IN
    (IF interim # <<>> THEN <<[cb |-> "onInterimResult", text |-> interim]>> ELSE <<>>)
    \o (IF finalText # <<>> /\ ~IsHallucination(finalText)
        THEN FinalThenClear(finalText) ELSE <<>>)

\* recognition.onresult: the callbacks it invokes, in order.
onresult(event) ==
    LET finalText == Accumulate(event, event.resultIndex, TRUE)
        interim == Accumulate(event, event.resultIndex, FALSE)
    IN
    (IF interim # <<>> THEN <<[cb |-> "onInterimResult", text |-> interim]>> ELSE <<>>)
    \o (IF finalText # <<>> THEN FinalThenClear(finalText) ELSE <<>>)

\* The interim text is added to the preview.
InterimQueued(prev, text) == prev \o text

\* onInterimChange = setInterimText: the new value replaces the preview.
onInterimChange(prev, text) == text

\* The page after the callbacks calls, in order, from the store st =
\* [interimText, logs, aiBuffer]: onInterimResult is setInterimText,
\* onFinalResult is addLog(text, "self").
RECURSIVE Deliver(_, _)
Deliver(calls, st) ==
    IF calls = <<>> THEN st
    ELSE LET c == Head(calls) IN
         Deliver(Tail(calls),
                 IF c.cb = "onInterimResult"
                 THEN [st EXCEPT !.interimText = onInterimChange(@, c.text)]
                 ELSE [st EXCEPT
                         !.logs = Append(@, [time |-> toLocaleTimeString(clock),
                                             text |-> c.text, speaker |-> "self"]),
                         !.aiBuffer = @ \o c.text \o <<"\n">>])

ResultIdle ==
    /\ interimText = <<>>
    /\ lastEvent = NoEvent
    /\ lastCalls = <<>>
    /\ expected = <<>>

\* The texts of the final results of event from resultIndex on, by index.
FinalsOf(event) ==
    [k \in 1..Len(event.results) |->
        IF k > event.resultIndex /\ event.results[k].isFinal
        THEN event.results[k].transcript ELSE <<>>]

\* The primitive delivers a result event.
OnResult(event) ==
    /\ LET calls == onresult(event)
           st == Deliver(calls, [interimText |-> interimText, logs |-> logs,
                                 aiBuffer |-> aiBuffer])
       IN
       /\ Len(st.logs) <= MaxLog
       /\ interimText' = st.interimText
       /\ logs' = st.logs
       /\ aiBuffer' = st.aiBuffer
       /\ lastEvent' = event
       /\ lastCalls' = calls
       /\ expected' = IF Flatten(FinalsOf(event)) # <<>>
                      THEN Append(expected, [speaker |-> "self",
                                             text |-> Flatten(FinalsOf(event))])
                      ELSE expected
    /\ UNCHANGED <<clock, groqApiKey, chunks, inflight, answers>>

\* The request of segment k completes while the recognition runs too.
OtherTranscript(k, resp) ==
    /\ TranscriptionReturns(k, resp)
    /\ Len(logs') <= MaxLog
    /\ expected' = IF resp.kind = "ok" /\ resp.hasText /\ Trim(resp.text) # <<>>
                        /\ ~IsHallucination(Trim(resp.text))
                    THEN Append(expected, [speaker |-> "other", text |-> Trim(resp.text)])
                    ELSE expected
    /\ UNCHANGED <<interimText, lastEvent, lastCalls>>

TranscriptNext ==
    \/ \E event \in Events : OnResult(event)
    \/ Len(chunks) < MaxOther /\ HandleAudioChunk /\ UNCHANGED resultVars
    \/ \E k \in Segments : \E resp \in AnswersFor(k) : OtherTranscript(k, resp)

(***************************************************************************)
(* The pipeline: the rotating pool hands its segments to handleAudioChunk,  *)
(* the transcription requests are in flight, and the recognition delivers   *)
(* its results, all on one event loop.                                      *)
(***************************************************************************)

\* The event loop is held while a transcription request is in flight.
BlockedWhileInFlight(fl) == fl # {}

\* handleAudioChunk is async and the engine does not await the chunk callback:
\* the handler returns at `await transcribeWithGroq(...)` and nothing waits for
\* the requests in flight.
Blocked(fl) == FALSE

\* stopSystemAudio() aborts the requests in flight.
Cancelled(fl) == {}

\* stopSystemAudio() holds no handle on the requests of handleAudioChunk: they
\* stay in flight.
Kept(fl) == fl

\* The result events of the recognition in the pipeline: one result, final or
\* interim, whose transcript is a plain text or a phrase of the denylist.
PipelineEvents ==
    {[resultIndex |-> 0, results |-> <<[isFinal |-> f, transcript |-> t]>>] :
        f \in BOOLEAN, t \in {<<"k">>, WHISPER_HALLUCINATIONS[6]}}

\* What the service answers in the pipeline: the utterance, a phrase of the
\* denylist, or a network error.
PipelineAnswers(k) == {Body(Utterance(k)), Body(WHISPER_HALLUCINATIONS[6]), Threw}

\* The control starts the other channel once.
PipelineStart ==
    /\ acLast.op = "init"
    /\ StartSystemAudio
    /\ UNCHANGED <<dispatchVars, resultVars>>

PipelineResolved ==
    /\ DisplayMediaResolved({GraphSteps}, {FALSE})
    /\ UNCHANGED <<dispatchVars, resultVars>>

\* stopSystemAudio() while the channel is active.
PipelineStop ==
    /\ systemStream # 0
    /\ StopSystemAudio
    /\ inflight' = Kept(inflight)
    /\ UNCHANGED <<clock, groqApiKey, chunks, answers, logs, aiBuffer, resultVars>>

\* The rotation tick, a task of the event loop.
PipelineTick ==
    /\ ~Blocked(inflight)
    /\ Tick
    /\ UNCHANGED <<dispatchVars, resultVars>>

\* Audio arrives at the recorders.
PipelineSample(s) ==
    /\ AudioSample(s)
    /\ UNCHANGED <<dispatchVars, resultVars>>

\* The events of a stopped recorder are handled: onstop calls the chunk
\* callback, which is handleAudioChunk up to its await.
PipelineFlushed ==
    /\ ~Blocked(inflight)
    /\ RecorderFlushed
    /\ IF out' # out THEN HandleAudioChunk ELSE UNCHANGED dispatchVars
    /\ UNCHANGED resultVars

\* The recognition delivers a result event.
PipelineResult(event) ==
    /\ ~Blocked(inflight)
    /\ OnResult(event)
    /\ UNCHANGED acVars

\* The request of segment k completes with resp.
PipelineReturns(k, resp) ==
    /\ OtherTranscript(k, resp)
    /\ UNCHANGED acVars

PipelineNext ==
    \/ PipelineStart
    \/ PipelineResolved
    \/ PipelineStop
    \/ PipelineTick
    \/ \E s \in StreamIds : PipelineSample(s)
    \/ PipelineFlushed
    \/ \E event \in PipelineEvents : PipelineResult(event)
    \/ \E k \in Segments : \E resp \in PipelineAnswers(k) : PipelineReturns(k, resp)

(***************************************************************************)
(* The Groq API key: RecordingControl receives it as a prop, handleAudioChunk *)
(* is a useCallback that closes over the prop of its render, and the engine  *)
(* keeps the onChunk callback it was constructed with.                       *)
(***************************************************************************)

\* The keys a user may configure.
ApiKeys == {"", "gsk"}

\* The user changes the key in the settings: RecordingControl renders again
\* with the new prop and a new handleAudioChunk; the engine, if it exists,
\* keeps its callback.
KeyChanged(k) ==
    /\ k # apiKeyProp
    /\ apiKeyProp' = k
    /\ UNCHANGED <<analyser, engineCreated, dispatchVars>>

\* The first toggle: `if (!audioCaptureRef.current) audioCaptureRef.current =
\* new AudioCaptureEngine({onChunk: handleAudioChunk, ...})`. The callback is
\* the handleAudioChunk of this render, which closes over this render's key.
EngineCreated ==
    /\ ~engineCreated
    /\ engineCreated' = TRUE
    /\ groqApiKey' = apiKeyProp
    /\ UNCHANGED <<analyser, apiKeyProp, clock, chunks, inflight, answers, logs, aiBuffer>>

\* The engine emits a segment to its onChunk callback.
KeySegment ==
    /\ engineCreated
    /\ HandleAudioChunk
    /\ UNCHANGED controlVars

\* The request of segment k completes with resp.
KeyReturns(k, resp) ==
    /\ TranscriptionReturns(k, resp)
    /\ UNCHANGED controlVars

KeyNext ==
    \/ \E k \in ApiKeys : KeyChanged(k)
    \/ EngineCreated
    \/ KeySegment
    \/ \E k \in Segments : \E resp \in PipelineAnswers(k) : KeyReturns(k, resp)

(***************************************************************************)
(* useEvalTemplates: the list of evaluation templates and its operations.   *)
(***************************************************************************)

\* Templates the list may hold.
MaxTemplates == 3

\* `const MAX_ITEMS = 10`
MAX_ITEMS == 10

VARIABLES
    templates,      \* the `templates` state: a sequence of templates
    tmplLast        \* history: the last operation, its id and the items supplied

templateVars == <<templates, tmplLast>>

\* The id "default" of the default template; the id `tmpl_${Date.now()}` of an
\* added template is the clock value.
DefaultId == 0 - 1

\* The item labels the first n supplied items carry: item k is k.
Items(n) == [k \in 1..n |-> k]

\* The item lists a caller supplies: one item, MAX_ITEMS items, one more.
Supplied == {Items(1), Items(MAX_ITEMS), Items(MAX_ITEMS + 1)}

\* getDefaultTemplates(): one template with five items.
getDefaultTemplates ==
    <<[id |-> DefaultId, name |-> "standard", items |-> Items(5),
       scoreOptions |-> "default"]>>

\* `items.slice(0, MAX_ITEMS)`
Slice(items) == SubSeq(items, 1, IF Len(items) < MAX_ITEMS THEN Len(items) ELSE MAX_ITEMS)

TemplateIdle ==
    /\ templates = getDefaultTemplates
    /\ tmplLast = [op |-> "init", id |-> DefaultId, items |-> <<>>]

\* addTemplate(name, items, scoreOptions): scoreOptions is "none" when the
\* caller passes none.
addTemplate(name, items, scoreOptions) ==
    /\ Len(templates) < MaxTemplates
    /\ templates' = Append(templates,
                           [id |-> DateNow, name |-> name, items |-> Slice(items),
                            scoreOptions |-> IF scoreOptions = "none" THEN "default"
                                             ELSE scoreOptions])
    /\ tmplLast' = [op |-> "add", id |-> DateNow, items |-> items]

\* updateTemplate(id, name, items, scoreOptions)
updateTemplate(id, name, items, scoreOptions) ==
    /\ templates' = [i \in 1..Len(templates) |->
                        IF templates[i].id = id
                        THEN [templates[i] EXCEPT
                                !.name = name, !.items = Slice(items),
                                !.scoreOptions = IF scoreOptions = "none" THEN @
                                                 ELSE scoreOptions]
                        ELSE templates[i]]
    /\ tmplLast' = [op |-> "update", id |-> id, items |-> items]

\* `prev.filter((t) => t.id !== id)`
RECURSIVE FilterOut(_, _)
FilterOut(list, id) ==
    IF list = <<>> THEN <<>>
    ELSE (IF Head(list).id # id THEN <<Head(list)>> ELSE <<>>) \o FilterOut(Tail(list), id)

\* deleteTemplate(id): `if (prev.length <= 1) return prev;`
deleteTemplate(id) ==
    /\ templates' = IF Len(templates) <= 1 THEN templates ELSE FilterOut(templates, id)
    /\ tmplLast' = [op |-> "delete", id |-> id, items |-> <<>>]

\* The ids a caller may pass: the default one and every clock value.
TemplateIds == {DefaultId} \cup 0..MaxClock

TemplateNext ==
    \/ \E items \in Supplied, so \in {"none", "own"} : addTemplate("new", items, so)
    \/ \E id \in TemplateIds, items \in Supplied, so \in {"none", "own"} :
          updateTemplate(id, "edited", items, so)
    \/ \E id \in TemplateIds : deleteTemplate(id)

vars == <<srVars, acVars, filterVars, dispatchVars, resultVars, controlVars,
          templateVars>>

Init ==
    SRInit /\ ~observe /\ ACInit /\ FilterIdle /\ DispatchIdle /\ ResultIdle /\ ControlIdle /\ TemplateIdle

Next == SRNext /\ UNCHANGED <<templateVars, acVars, filterVars, dispatchVars, resultVars, controlVars>>

\* The recognition session: the engine, the primitive and the restart timers.
Spec == Init /\ [][Next]_vars

ObservedInit ==
    SRInit /\ observe /\ ACInit /\ FilterIdle /\ DispatchIdle /\ ResultIdle /\ ControlIdle /\ TemplateIdle

\* The recognition session with the history of one error signal recorded.
SpecObserved == ObservedInit /\ [][Next]_vars

CaptureInit ==
    /\ ACInit /\ SRInit /\ ~observe /\ supported /\ FilterIdle /\ DispatchIdle
    /\ ResultIdle /\ ControlIdle /\ TemplateIdle

CaptureNext == ACNext /\ UNCHANGED <<templateVars, srVars, filterVars, dispatchVars, resultVars, controlVars>>

\* The other-channel capture: the engine, the captured streams, the recorders,
\* the rotation interval and the audio that arrives.
SpecCapture == CaptureInit /\ [][CaptureNext]_vars

LifecycleNext == ACFailNext /\ UNCHANGED <<templateVars, srVars, filterVars, dispatchVars, resultVars, controlVars>>

\* The lifecycle of the other channel: startSystemAudio() with every outcome of
\* the capture request and every failure point, stopSystemAudio(), the rotation
\* interval and the end of the tracks.
SpecLifecycle == CaptureInit /\ [][LifecycleNext]_vars

ChannelsNext == ACChannelsNext /\ UNCHANGED <<templateVars, srVars, filterVars, dispatchVars, resultVars, controlVars>>

\* The two channels of the engine: the microphone, the other channel,
\* stopAll() and the status sink.
SpecChannels == CaptureInit /\ [][ChannelsNext]_vars

\* The stop operations of the two engines. The engines share no field, so a
\* behaviour runs one of them; the capture engine, which does not read whether
\* the recognition primitive exists, runs where it does.
StopsNext ==
    \/ /\ acLast.op = "init"
       /\ SRNext
       /\ UNCHANGED <<templateVars, acVars, filterVars, dispatchVars, resultVars, controlVars>>
    \/ /\ last.op = "init"
       /\ supported
       /\ ACChannelsNext
       /\ UNCHANGED <<templateVars, srVars, filterVars, dispatchVars, resultVars, controlVars>>

SpecStops == Init /\ [][StopsNext]_vars

FilterSpecInit ==
    /\ SRInit /\ ~observe /\ supported /\ ACInit /\ DispatchIdle /\ ResultIdle
    /\ ControlIdle /\ TemplateIdle /\ FilterInit

FilterNext == Transcribe /\ UNCHANGED <<templateVars, srVars, acVars, dispatchVars, resultVars, controlVars>>

\* transcribeWithGroq on every response of the service.
SpecFilter == FilterSpecInit /\ [][FilterNext]_vars

DispatchSpecInit ==
    /\ SRInit /\ ~observe /\ supported /\ ACInit /\ FilterIdle /\ ResultIdle
    /\ ControlIdle /\ TemplateIdle /\ DispatchInit

DispatchSpecNext == DispatchNext /\ UNCHANGED <<templateVars, srVars, acVars, filterVars, resultVars, controlVars>>

\* The segments from the engine to the transcript log, with the requests of
\* several segments in flight at once.
SpecDispatch == DispatchSpecInit /\ [][DispatchSpecNext]_vars

TranscriptInit ==
    /\ SRInit /\ ~observe /\ supported /\ ACInit /\ FilterIdle /\ ResultIdle
    /\ ControlIdle /\ TemplateIdle /\ DispatchInit /\ groqApiKey # ""

TranscriptSpecNext == TranscriptNext /\ UNCHANGED <<templateVars, srVars, acVars, filterVars, controlVars>>

\* The two sources of the transcript: the result events of the recognition and
\* the transcription of the segments, into the preview and the log.
SpecTranscript == TranscriptInit /\ [][TranscriptSpecNext]_vars

RotationNext ==
    \/ ACRotationNext
          /\ UNCHANGED <<templateVars, srVars, filterVars, dispatchVars, resultVars, controlVars>>
    \/ Tock /\ UNCHANGED <<templateVars, srVars, acVars, filterVars, resultVars, controlVars>>

\* The rotating pool, the audio that arrives and the wall clock.
SpecRotation == CaptureInit /\ [][RotationNext]_vars

PipelineSpecNext ==
    /\ PipelineNext
    /\ UNCHANGED <<templateVars, srVars, filterVars, controlVars>>

\* The pipeline from the recorders and the recognition to the transcript.
SpecPipeline == TranscriptInit /\ [][PipelineSpecNext]_vars

KeyInit ==
    /\ SRInit /\ ~observe /\ supported /\ ACInit /\ FilterIdle /\ ResultIdle
    /\ DispatchIdle /\ analyser = 0 /\ apiKeyProp \in ApiKeys /\ engineCreated = FALSE
    /\ TemplateIdle

KeySpecNext == KeyNext /\ UNCHANGED <<templateVars, srVars, acVars, filterVars, resultVars>>

\* The key prop, the engine's chunk callback and the requests.
SpecKey == KeyInit /\ [][KeySpecNext]_vars

TemplateSpecNext ==
    \/ TemplateNext /\ UNCHANGED <<srVars, acVars, filterVars, dispatchVars, resultVars,
                                    controlVars>>
    \/ Tock /\ UNCHANGED <<templateVars, srVars, acVars, filterVars, resultVars, controlVars>>

\* The template list under its three operations and the clock that names the
\* added templates.
SpecTemplates == CaptureInit /\ [][TemplateSpecNext]_vars

ControlSpecNext == ControlNext /\ UNCHANGED <<templateVars, srVars, filterVars, dispatchVars, resultVars>>

\* The other channel as RecordingControl drives it.
SpecControl == CaptureInit /\ [][ControlSpecNext]_vars

(***************************************************************************)
(* The recognition session: stop() and the restart policy.                 *)
(***************************************************************************)

\* C1: an 'ended' or 'error' signal that the primitive emits after stop() and
\* before the next start() causes no restart attempt: its handler neither calls
\* the primitive's start() nor arms a restart timer.
NoRestartFromSignalAfterStop ==
    (last.op \in {"onend", "onerror"} /\ last.preStopped)
        => (last.calls = 0 /\ last.armed = 0)

\* An 'error' signal is handled after stop(), then the 'ended' signal of the same
\* session.
SignalsAfterStop ==
    /\ last.op = "onend"
    /\ last.preStopped
    /\ \E i \in Slots : inst[i].st = "idle" /\ i = recognition
    /\ sinceStop

\* C2: between stop() and the next start(), the engine never calls the
\* primitive's start(), whatever handler or timer runs.
NoPrimitiveStartWhileStopped ==
    (last.preStopped /\ last.op # "start") => last.calls = 0

ErrorRestartsOnceAfterDelay ==
    (Settled /\ fail.running /\ ~fail.cancelled)
        => (fail.attempts = 1 /\ ~fail.early)

(***************************************************************************)
(* The other channel: rotation, the start on a stream with no audio, stop. *)
(***************************************************************************)

\* The number of emitted segments that contain sample x.
Emitted(x) == Cardinality({k \in 1..Len(out) : Occurrences(x, out[k]) > 0})

\* The number of copies of sample x that an emitted segment, a recorder, a
\* queued recorder event or the chunks of a slot hold.
Copies(x) ==
    Occurrences(x, Flatten(out))
    + Occurrences(x, Flatten([r \in RecIds |-> rec[r].buf]))
    + Occurrences(x, Flatten([k \in 1..Len(flushQ) |-> flushQ[k].data]))
    + Occurrences(x, Flatten(Flatten(recorderChunks)))

\* The recorders that record although this.recorders does not hold them: the
\* pool of a session that a second startSystemAudio() replaced.
Replaced == {r \in RecIds : rec[r].st = "recording" /\ r \notin Range(recorders)}

NoAudioTrackStartFails ==
    (acLast.op = "startSystemAudio" /\ acLast.stream # 0 /\ acLast.audio = 0)
        => /\ ~acLast.ret
           /\ acLast.created = {}
           /\ recorders = <<>>
           /\ ~switchInterval
           /\ sourceNode = 0 /\ inputGainNode = 0 /\ analyserNode = 0
           /\ keepAliveOscillator = 0
           /\ ~systemAudioActive
           /\ ~StreamActive(streams, acLast.stream)

StartedOnSilentStream ==
    /\ acLast.op = "startSystemAudio"
    /\ acLast.stream # 0
    /\ acLast.audio = 0
    /\ ~acLast.ret
    /\ ~StreamActive(streams, acLast.stream)

\* C7: stopSystemAudio() never raises, also when it is called twice in a row
\* or before any startSystemAudio() succeeded; after it systemAudioActive is
\* false, the rotation interval is null and the recorder list is empty, and a
\* call that directly follows another call changes nothing.
StopIsIdempotent ==
    acLast.op = "stopSystemAudio"
        => /\ ~acLast.raised
           /\ ~systemAudioActive
           /\ ~switchInterval
           /\ recorders = <<>>
           /\ (acLast.prev = "stopSystemAudio" => ~acLast.changed)

StoppedTwiceInARow ==
    /\ acLast.op = "stopSystemAudio"
    /\ acLast.prev = "stopSystemAudio"
    /\ ~acLast.changed
    /\ ~acLast.raised

(***************************************************************************)
(* The filter of the batch transcription and the order of the transcript.  *)
(***************************************************************************)

\* h occurs in t as a run of consecutive characters.
Contains(t, h) ==
    \E i \in 1..(Len(t) + 1) : i + Len(h) - 1 <= Len(t) /\ SubSeq(t, i, i + Len(h) - 1) = h

\* u is t without the white space at its two ends.
IsTrimmed(u, t) ==
    \E i \in 1..(Len(t) + 1), j \in 0..Len(t) :
        /\ u = SubSeq(t, i, j)
        /\ \A k \in 1..(i - 1) : t[k] \in WhiteSpace
        /\ \A k \in (j + 1)..Len(t) : t[k] \in WhiteSpace
        /\ u # <<>> => (u[1] \notin WhiteSpace /\ u[Len(u)] \notin WhiteSpace)

\* The text of the response with the white space at its two ends removed.
Trimmed ==
    CHOOSE u \in {SubSeq(response.text, i, j) :
                    i \in 1..(Len(response.text) + 1), j \in 0..Len(response.text)} :
        IsTrimmed(u, response.text)

\* C8: for every text the service returns, transcribeWithGroq returns null if
\* and only if the trimmed text is empty or contains a denylist phrase
\* (case-sensitive), and otherwise returns exactly the trimmed text;
\* "ご視聴ありがとうございました" is discarded and "よろしくお願いします" is returned
\* unchanged.
DiscardsExactlyEmptyOrDenylisted ==
    (returned /\ response.kind = "ok" /\ response.hasText)
        => /\ transcript.null <=>
                (\/ Trimmed = <<>>
                 \/ \E k \in 1..Len(WHISPER_HALLUCINATIONS) :
                        Contains(Trimmed, WHISPER_HALLUCINATIONS[k]))
           /\ ~transcript.null => transcript.text = Trimmed
           /\ response.text = WHISPER_HALLUCINATIONS[1] => transcript = Null
           /\ response.text = Greeting => transcript = Text(Greeting)

PaddedPhraseDiscarded ==
    /\ returned
    /\ response = Body(<<" ">> \o WHISPER_HALLUCINATIONS[6] \o <<"x">>)
    /\ transcript = Null

\* The segment a log item belongs to: the utterances differ in length.
SegmentOf(item) == Len(item.text)

\* The log items q with item put in after the last one whose time is not
\* later: one step of a stable sort by time.
RECURSIVE InsertByTime(_, _)
InsertByTime(item, q) ==
    IF q = <<>> THEN <<item>>
    ELSE IF q[Len(q)].time <= item.time THEN Append(q, item)
    ELSE Append(InsertByTime(item, SubSeq(q, 1, Len(q) - 1)), q[Len(q)])

\* The log items sorted by time, items of equal time in their stored order.
RECURSIVE SortByTime(_)
SortByTime(q) ==
    IF q = <<>> THEN <<>>
    ELSE InsertByTime(q[Len(q)], SortByTime(SubSeq(q, 1, Len(q) - 1)))

\* Segments 1, 2, 3 were handed over in that order at different times, each
\* request returned a text, and the one of segment 2 returned last.
SecondAnsweredLast ==
    /\ Len(chunks) = 3
    /\ chunks[1].timestamp < chunks[2].timestamp
    /\ chunks[2].timestamp < chunks[3].timestamp
    /\ Len(answers) = 3
    /\ [k \in 1..3 |-> answers[k].seg] = <<1, 3, 2>>
    /\ \A k \in 1..3 : ~answers[k].text.null

\* C9: when the response for segment 2 arrives after the response for segment
\* 3, the log holds an item for each response, each item carries the capture
\* time of its own segment, and the items sorted by that time are in the order
\* 1, 2, 3.
StoredWithCaptureTimeInOrder ==
    SecondAnsweredLast
        => /\ Len(logs) = 3
           /\ \A k \in 1..Len(logs) :
                logs[k].time = chunks[SegmentOf(logs[k])].timestamp \div TicksPerMinute
           /\ [k \in 1..3 |-> SegmentOf(SortByTime(logs)[k])] = <<1, 2, 3>>

(***************************************************************************)
(* The result events, the preview and the log.                             *)
(***************************************************************************)

\* The callbacks of the last update that are cb, in order.
CallsOf(cb) == SelectSeq(lastCalls, LAMBDA c : c.cb = cb)

\* C11: for a result update with at least one final result of non-empty
\* text, the handler invokes onFinalResult exactly once, with the transcripts
\* of the final results from resultIndex on concatenated in index order, and
\* the last onInterimResult of the update carries the empty text, so that the
\* preview is empty afterwards.
FinalDeliveredOnceAndPreviewCleared ==
    (\E k \in 1..Len(lastEvent.results) :
        /\ k > lastEvent.resultIndex
        /\ lastEvent.results[k].isFinal
        /\ lastEvent.results[k].transcript # <<>>)
    => /\ Len(CallsOf("onFinalResult")) = 1
       /\ CallsOf("onFinalResult")[1].text = Flatten(FinalsOf(lastEvent))
       /\ CallsOf("onInterimResult") # <<>>
       /\ CallsOf("onInterimResult")[Len(CallsOf("onInterimResult"))].text = <<>>
       /\ interimText = <<>>

FinalAndInterimInOneUpdate ==
    /\ Len(lastEvent.results) = 2
    /\ lastEvent.resultIndex = 0
    /\ lastEvent.results[1].isFinal /\ lastEvent.results[1].transcript = <<"k">>
    /\ ~lastEvent.results[2].isFinal /\ lastEvent.results[2].transcript = <<"m">>
    /\ Len(lastCalls) = 3
    /\ interimText = <<>>

\* C12: the log holds exactly the final texts of the recognition and the
\* accepted texts of the transcription, in the order they were delivered, so
\* that no interim text is an item of it; and the preview is the last interim
\* text delivered, not the earlier ones with it.
LogHoldsFinalsOnly ==
    /\ Len(logs) = Len(expected)
    /\ \A k \in 1..Len(logs) :
          logs[k].text = expected[k].text /\ logs[k].speaker = expected[k].speaker
    /\ CallsOf("onInterimResult") # <<>>
          => interimText = CallsOf("onInterimResult")[Len(CallsOf("onInterimResult"))].text

InterimReplacedWhileLogged ==
    /\ Len(logs) = 2
    /\ logs[1].speaker = "self"
    /\ logs[2].speaker = "other"
    /\ interimText = <<"m">>
    /\ Len(lastCalls) = 1

\* The response carries no text: a network failure, a status that is not
\* OK, or a malformed body.
Failed(resp) == resp.kind # "ok" \/ ~resp.hasText

\* C13: transcribeWithGroq never throws; without a key, on a network failure,
\* on a status that is not OK and on a malformed body it returns null, and
\* handleAudioChunk then adds no log item for the segment and does not submit
\* the segment again.
FailureYieldsNoEventNoRetry ==
    /\ \A k \in 1..Len(answers) :
          /\ ~answers[k].raised
          /\ Failed(answers[k].resp) => answers[k].text = Null
          /\ answers[k].seg \notin inflight
          /\ \A j \in 1..Len(answers) : answers[j].seg = answers[k].seg => j = k
    /\ Len(logs) = Cardinality({k \in 1..Len(answers) : ~Failed(answers[k].resp)
                                                        /\ ~answers[k].text.null})
    /\ \A resp \in AnswersFor(1) :
          transcribeWithGroq("", resp) = Null /\ ~Escapes("", resp)

ThreeFailuresNoEvent ==
    /\ Len(answers) = 3
    /\ answers[1].resp = Threw
    /\ answers[2].resp = HttpError
    /\ answers[3].resp = MalformedBody
    /\ inflight = {}
    /\ logs = <<>>

\* C14: no stop operation raises to its caller: stop() of the recognition
\* engine, stopMicrophone(), stopSystemAudio() and stopAll() of the capture
\* engine, and the stop run by the track's onended handler, complete without an
\* exception in every reachable state, also when the session, a recorder or the
\* oscillator was already stopped or was never started.
StopNeverRaises ==
    /\ last.op = "stop" => ~last.raised
    /\ acLast.op \in {"stopMicrophone", "stopSystemAudio", "stopAll", "onended"}
          => ~acLast.raised

\* A stop of the other channel found a keep-alive oscillator that was created
\* and never started, and completed.
StoppedWithOscillatorNeverStarted ==
    /\ acLast.op \in {"stopSystemAudio", "stopAll"}
    /\ acLast.cold
    /\ ~acLast.raised
    /\ keepAliveOscillator = 0

\* C15: when stopSystemAudio() has returned, no rotation timer is armed (the
\* one the engine refers to or one it lost track of) and no recorder the engine
\* created is recording, whatever the active index was.
StopLeavesNoTimerNoRecorder ==
    (acLast.op = "stopSystemAudio" /\ ~acLast.raised) =>
        /\ ~switchInterval
        /\ leakedIntervals = 0
        /\ \A r \in RecIds : rec[r].st = "inactive"

\* C16: when the tracks of the stream the engine captures end from outside
\* while the channel is active, the session is torn down completely: no
\* rotation timer stays armed, no recorder records, the oscillator, source,
\* gain and analyser references and the stream are released, and the sink has
\* been given a state with systemAudioActive false.
EndOfStreamTearsDown ==
    (acLast.op \in {"onended", "ended"} /\ acLast.sys # 0 /\ acLast.stream = acLast.sys) =>
        /\ ~switchInterval
        /\ leakedIntervals = 0
        /\ \A r \in RecIds : rec[r].st = "inactive"
        /\ keepAliveOscillator = 0
        /\ sourceNode = 0
        /\ inputGainNode = 0
        /\ analyserNode = 0
        /\ systemStream = 0
        /\ ~sink.systemAudioActive

\* The recorders that record stream s in fallback mode.
SimpleRecording(s) ==
    {r \in RecIds : rec[r].st = "recording" /\ rec[r].mode = "simple" /\ rec[r].src = s}

\* C17: when the construction of the mix graph has failed at some step,
\* startSystemAudio() returns true and the session runs in fallback mode: one
\* recorder records, it records the raw captured stream without rotation, and
\* no rotation timer is armed.
GraphFailureFallsBack ==
    (acLast.op = "startSystemAudio" /\ acLast.audio > 0 /\ "timer" \notin acLast.created
        /\ audioContext # "null") =>
        /\ acLast.ret
        /\ Cardinality({r \in RecIds : rec[r].st = "recording"}) = 1
        /\ Cardinality(SimpleRecording(acLast.stream)) = 1
        /\ ~switchInterval
        /\ leakedIntervals = 0

\* C18: whenever startSystemAudio() has returned false, the other channel is
\* cleanly stopped (getState().systemAudioActive is false, no track of the
\* captured stream is live, no recorder records and no rotation timer is
\* armed) and the microphone stream is the one it was before the call.
FailedStartLeavesStopped ==
    (acLast.op = "startSystemAudio" /\ ~acLast.ret) =>
        /\ ~systemAudioActive
        /\ acLast.stream # 0 => ~StreamActive(streams, acLast.stream)
        /\ recorders = <<>>
        /\ \A r \in RecIds : rec[r].st = "inactive"
        /\ ~switchInterval
        /\ leakedIntervals = 0
        /\ micStream = acLast.mic

\* C19: at every quiescent point (no start of either channel awaits its
\* capture request) the last state given to onStateChange is the state
\* getState() returns.
SinkHasCurrentState ==
    (pending = 0 /\ micPending = 0) => sink = StateOf(micStream, systemStream, streams)

\* C20: across startSystemAudio()/stopSystemAudio() cycles at most one
\* keep-alive oscillator runs at any time and none runs while the other channel
\* is stopped, and a stopSystemAudio() that has returned has released the
\* oscillator, gain and analyser references together.
AtMostOneOscillator ==
    /\ Cardinality(oscRunning) <= 1
    /\ (systemStream = 0 /\ pending = 0) => oscRunning = {}
    /\ (acLast.op = "stopSystemAudio" /\ ~acLast.raised) =>
          keepAliveOscillator = 0 /\ inputGainNode = 0 /\ analyserNode = 0

\* C21: where the recognition primitive does not exist, start() reports one
\* error through onError, returns false, creates and starts no session and
\* leaves isRunning and shouldRestart as they were, so getIsRunning() is false
\* when it was false before the call.
UnsupportedStartFailsFast ==
    (last.op = "start" /\ ~supported) =>
        /\ last.cbs = <<"onError">>
        /\ ~last.ret
        /\ last.calls = 0
        /\ recognition = 0
        /\ \A i \in Slots : inst[i] = IdleInst
        /\ isRunning = last.preRunning
        /\ shouldRestart = last.preRestart
        /\ (~last.preRunning /\ ~last.preRestart) => ~getIsRunning

\* start() was called where the primitive does not exist, after a stop().
StartedWhereUnsupported ==
    /\ last.op = "start"
    /\ ~supported
    /\ last.preStopped
    /\ ~getIsRunning

\* C22: the analyser handle, the engine's analyserNode and the one the
\* control keeps for the visualiser, is non-null only while the other channel
\* is active, and after a successful startSystemAudio() the handle is a node
\* that this start created: never the node of an earlier session.
AnalyserHandleOfLiveSession ==
    /\ analyserNode # 0 => systemAudioActive
    /\ analyser # 0 => systemAudioActive
    /\ (acLast.op = "startSystemAudio" /\ acLast.ret /\ analyser # 0)
          => "analyser" \in acLast.created

\* The recorders of the pool that are recording.
PoolRecording == {k \in 1..Len(recorders) : rec[recorders[k]].st = "recording"}

ChunksNonEmptyAndBufferCleared ==
    /\ \A k \in 1..Len(out) : Len(out[k]) > 0
    /\ \A j \in 1..2 : recorderChunks[j] = <<>>

\* The recorder of slot 0 was stopped with data, its segment was emitted, and
\* it records again after the next tick.
RestartedAfterEmitting ==
    /\ Len(out) > 0
    /\ acLast.op = "tick"
    /\ acLast.prev = "tick"
    /\ Len(recorders) = 2
    /\ activeRecorderIndex = 0
    /\ rec[recorders[1]].st = "recording"
    /\ rec[recorders[1]].buf # <<>>

\* C25: the segment emitted when the events of a stopped recorder are handled
\* is exactly the data this recorder buffered since its own start (and no
\* segment when it buffered none), whatever ticks, stopSystemAudio() and
\* startSystemAudio() calls came between the stop and its events; no sample
\* appears twice in the emitted segments.
SegmentIsOwnBuffer ==
    /\ [][(flushQ # <<>> /\ flushQ' = Tail(flushQ))
            => out' = IF Head(flushQ).data # <<>>
                      THEN Append(out, Head(flushQ).data) ELSE out]_vars
    /\ [][out' # out => flushQ # <<>> /\ flushQ' = Tail(flushQ)]_vars
    /\ [](\A x \in 1..MaxSamples : Occurrences(x, Flatten(out)) <= 1)

\* The segment of a session that was stopped is emitted, and a later session
\* has its pool with a recorder in the same slot.
EmittedAcrossSessions ==
    /\ Len(out) > 0
    /\ flushQ = <<>>
    /\ acLast.op = "startSystemAudio"
    /\ acLast.ret
    /\ acLast.stream = 2
    /\ ~StreamActive(streams, 1)
    /\ Len(recorders) = 2

\* The emitted segments hold the samples in the order they arrived.
InCaptureOrder(q) ==
    \A i \in 1..Len(q) : \A j \in 1..Len(q) :
        i < j => \A a \in 1..Len(q[i]) : \A b \in 1..Len(q[j]) : q[i][a] < q[j][b]

\* C26: the rotating pool hands the segments to the chunk callback in capture
\* order: every sample of a segment arrived before every sample of the next
\* one, a rotation tick stops at most one recorder and so produces at most one
\* segment, the segments are delivered in the order their recorders were
\* stopped, and the timestamps never decrease in delivery order.
SegmentsInCaptureOrder ==
    /\ [](InCaptureOrder(out))
    /\ [](\A i \in 1..Len(stamps) : \A j \in 1..Len(stamps) :
            i < j => stamps[i] <= stamps[j])
    /\ [](Len(stamps) = Len(out))
    /\ [][(acLast'.op = "tick" /\ activeRecorderIndex' # activeRecorderIndex)
            => Len(flushQ') <= Len(flushQ) + 1]_vars
    /\ [][out' # out => flushQ # <<>> /\ out' = Append(out, Head(flushQ).data)]_vars

\* Two ticks have produced two segments, the second stamped later.
TwoSegmentsInOrder ==
    /\ Len(out) = 2
    /\ stamps[1] < stamps[2]
    /\ acLast.op = "tick"
    /\ acLast.prev = "tick"

\* C27: a transcription request in flight never blocks the pipeline. While
\* requests are pending, the rotation tick can fire whenever its interval is
\* armed, the events of a stopped recorder can be handled and hand a new segment
\* to handleAudioChunk, and every result event of the recognition can be
\* delivered.
InFlightNeverBlocks ==
    inflight # {} =>
        /\ (switchInterval /\ Len(flushQ) < MaxQueue) => ENABLED PipelineTick
        /\ (flushQ # <<>> /\ Len(chunks) < MaxSegments) => ENABLED PipelineFlushed
        /\ Len(logs) < MaxLog => \A event \in PipelineEvents : ENABLED PipelineResult(event)

\* Two requests are in flight at once, the second submitted after a tick that
\* fired while the first was pending, and the recognition has delivered a final
\* result to the log.
TwoRequestsInFlight ==
    /\ inflight = {1, 2}
    /\ acLast.op = "tick"
    /\ \E i \in 1..Len(logs) : logs[i].speaker = "self"

\* C28: a response that arrives after stopSystemAudio() for a segment
\* dispatched before it is appended to the log as an item of the speaker
\* "other" when its text passes the filter, and stopSystemAudio() takes no
\* request out of flight and completes none.
LateResponseStillLogged ==
    /\ [][(systemStream = 0 /\ Len(answers') = Len(answers) + 1
            /\ LET resp == answers'[Len(answers')].resp IN
               resp.kind = "ok" /\ resp.hasText /\ Trim(resp.text) # <<>>
               /\ ~IsHallucination(Trim(resp.text)))
           => logs' = Append(logs, [time |-> toLocaleTimeString(clock),
                                    text |-> Trim(answers'[Len(answers')].resp.text),
                                    speaker |-> "other"])]_vars
    /\ [][(systemStream # 0 /\ systemStream' = 0)
           => inflight' = inflight /\ answers' = answers /\ logs' = logs]_vars

\* The channel is stopped and the log holds the text of a response that arrived
\* after the stop.
LoggedAfterStop ==
    /\ systemStream = 0
    /\ acLast.op = "stopSystemAudio"
    /\ \E a \in 1..Len(answers) :
          /\ ~answers[a].live
          /\ ~answers[a].text.null
          /\ \E i \in 1..Len(logs) :
                logs[i].speaker = "other" /\ logs[i].text = answers[a].text.text

\* C29: a restart attempt that throws inside onend or inside the restart timer
\* is swallowed. The handler raises nothing and invokes no callback,
\* shouldRestart keeps its value and the instances other than the one that
\* ended are left as they are; and every 'end' signal handled while
\* shouldRestart is set calls the primitive's start() again.
RestartThrowSwallowed ==
    /\ [][(last'.op = "timer" /\ Len(timers') < Len(timers)
            /\ PrimStartThrows(inst, recognition))
           => /\ ~last'.raised
              /\ last'.cbs = <<>>
              /\ last'.calls = 1
              /\ shouldRestart' = shouldRestart
              /\ isRunning' = isRunning
              /\ inst' = inst]_vars
    /\ [][(last'.op = "onend" /\ inst' # inst /\ shouldRestart
            /\ PrimStartThrows(inst, recognition)
            /\ inst'[recognition] = inst[recognition])
           => /\ ~last'.raised
              /\ last'.cbs = <<>>
              /\ last'.calls = 1
              /\ shouldRestart']_vars
    /\ [][(last'.op = "onend" /\ inst' # inst /\ shouldRestart)
           => last'.calls = 1 /\ ~last'.raised]_vars

\* The restart timer has just called start() on a session that was already
\* started: the call threw, and the engine still intends to run.
TimerRestartThrew ==
    /\ last.op = "timer"
    /\ last.calls = 1
    /\ shouldRestart
    /\ recognition # 0
    /\ inst[recognition].st = "active"
    /\ inst[recognition].started

\* C30: the denylist is applied on the other channel only. A final result of
\* the recognition is appended to the log as an item of the speaker "self" with
\* its transcript as it is, a phrase of the denylist included; a response of the
\* transcription whose text holds a phrase of the denylist leaves the log as it
\* is, and no item of the speaker "other" holds such a phrase.
FilterOnOtherChannelOnly ==
    /\ [](\A i \in 1..Len(logs) :
            logs[i].speaker = "other" => ~IsHallucination(logs[i].text))
    /\ [][\A event \in PipelineEvents :
            (PipelineResult(event) /\ event.results[1].isFinal)
            => logs' = Append(logs, [time |-> toLocaleTimeString(clock),
                                     text |-> event.results[1].transcript,
                                     speaker |-> "self"])]_vars
    /\ [][(Len(answers') = Len(answers) + 1
            /\ LET resp == answers'[Len(answers')].resp IN
               resp.kind = "ok" /\ resp.hasText /\ IsHallucination(resp.text))
           => logs' = logs /\ aiBuffer' = aiBuffer]_vars

\* The same phrase of the denylist came from both channels: the log holds it as
\* an item of the speaker "self" and holds nothing for the response.
PhraseLoggedForSelfOnly ==
    /\ \E i \in 1..Len(logs) :
          logs[i].speaker = "self" /\ logs[i].text = WHISPER_HALLUCINATIONS[6]
    /\ \E a \in 1..Len(answers) :
          answers[a].resp = Body(WHISPER_HALLUCINATIONS[6]) /\ answers[a].text.null
    /\ \A i \in 1..Len(logs) : logs[i].speaker = "self"

\* C31: the operations of one channel leave the other channel as it is. A step
\* of startMicrophone() (its call, its rejection, its resolution) or of
\* stopMicrophone() changes neither this.systemStream, the tracks of the
\* captured streams, the recorders, the rotation interval, the graph nodes nor
\* the audio context; a step of startSystemAudio() or of stopSystemAudio()
\* changes neither this.micStream nor the pending microphone requests.
ChannelsAreIndependent ==
    /\ [][(\/ micPending' # micPending
            \/ (acLast' # acLast /\ acLast'.op \in {"startMicrophone", "stopMicrophone"}))
           => UNCHANGED <<systemStream, streams, recorders, rec, recorderChunks,
                          activeRecorderIndex, switchInterval, leakedIntervals,
                          sourceNode, inputGainNode, destinationNode, analyserNode,
                          keepAliveOscillator, oscRunning, audioContext, pending,
                          flushQ>>]_vars
    /\ [][(\/ pending' # pending
            \/ (acLast' # acLast /\ acLast'.op \in {"startSystemAudio.await",
                                                     "startSystemAudio",
                                                     "stopSystemAudio"}))
           => UNCHANGED <<micStream, micPending>>]_vars

\* stopMicrophone() has just stopped a live microphone while the other channel
\* is captured by a rotating pool.
MicrophoneStoppedWhileCapturing ==
    /\ acLast.op = "stopMicrophone"
    /\ acLast.mic = "live"
    /\ systemStream # 0
    /\ switchInterval
    /\ Len(recorders) = 2
    /\ sourceNode # 0

\* C32: the onEnd callback is invoked by the 'end' signal of a session that
\* ends after an intentional stop(), that is with no start() called since, and
\* by no other; an 'end' signal that calls the primitive's start() invokes no
\* callback.
OnEndOnlyAfterStop ==
    /\ last.op # "onend" => "onEnd" \notin {last.cbs[k] : k \in 1..Len(last.cbs)}
    /\ last.op = "onend" =>
          /\ last.cbs = <<"onEnd">> <=> ~last.preRestart
          /\ last.calls > 0 => last.cbs = <<>>
          /\ last.cbs = <<"onEnd">> <=> last.preStopped

\* C33: after stop() and until start() is called again, getIsRunning() is false,
\* whatever signal the primitive delivers and whatever timer fires.
NotRunningWhileStopped == sinceStop => ~getIsRunning

\* C34: when start() has returned false, the session does not intend to run:
\* getIsRunning() is false, and an 'end' or 'error' signal handled next calls
\* the primitive's start() no more and arms no restart timer.
FailedStartIntendsNothing ==
    /\ []((last.op = "start" /\ ~last.ret) => ~getIsRunning)
    /\ [][(last.op = "start" /\ ~last.ret /\ last'.op \in {"onend", "onerror"})
           => last'.calls = 0 /\ last'.armed = 0]_vars

\* C35: at most one session of the primitive drives the engine. No two
\* instances are started and not asked to end at the same time, and a signal of
\* an instance that is not this.recognition changes isRunning no more and calls
\* the primitive's start() no more.
OneSessionDrivesEngine ==
    /\ [](Cardinality({i \in Slots : inst[i].st = "active"}) <= 1)
    /\ [][\A i \in Slots :
            (i # recognition /\ (OnStart(i) \/ OnEnd(i) \/ OnError(i)))
            => isRunning' = isRunning /\ last'.calls = 0]_vars

\* C36: for every sequence of startSystemAudio() and stopSystemAudio() calls, at
\* most one rotation interval is armed, the recorders that record are those of
\* the one pool this.recorders refers to, and a stopSystemAudio() that has
\* returned leaves no interval armed and no recorder recording.
OneTimerOnePool ==
    /\ (IF switchInterval THEN 1 ELSE 0) + leakedIntervals <= 1
    /\ \A r \in RecIds : rec[r].st = "recording" => r \in Range(recorders)
    /\ (acLast.op = "stopSystemAudio" /\ ~acLast.raised) =>
          /\ (IF switchInterval THEN 1 ELSE 0) + leakedIntervals = 0
          /\ \A r \in RecIds : rec[r].st # "recording"

\* C37: when startSystemAudio() has returned true and the sink was told that
\* the other channel is active, some recorder of this.recorders is recording
\* the captured stream.
StartedMeansRecording ==
    (acLast.op = "startSystemAudio" /\ acLast.ret /\ sink.systemAudioActive) =>
        \E r \in Range(recorders) : rec[r].st = "recording" /\ rec[r].src = systemStream

\* C38: a stop issued while the start of the same channel awaits its stream
\* wins. When the capture request resolves right after such a stop, with no
\* start called in between, the channel is inactive and the captured tracks
\* are not live: for the microphone this.micStream is not a live stream, for
\* the other channel this.systemStream is null and no stream is active.
StopWinsOverPendingStart ==
    /\ [][(acLast.op = "stopMicrophone" /\ acLast.waiting
            /\ micPending' < micPending /\ acLast'.op = "startMicrophone")
           => micStream' # "live" /\ ~sink'.micActive]_vars
    /\ [][(acLast.op = "stopSystemAudio" /\ acLast.prev = "startSystemAudio.await"
            /\ pending' < pending /\ acLast'.op = "startSystemAudio")
           => /\ systemStream' = 0
              /\ ~sink'.systemAudioActive
              /\ \A s \in StreamIds : ~StreamActive(streams', s)]_vars

\* C39: a segment the engine emits while a non-empty key is configured is
\* submitted to the transcription service, and a segment emitted while no key
\* is configured is dropped with no request, whether the key was configured
\* before or after the engine was created.
SegmentSubmittedIffKeyConfigured ==
    [][Len(chunks') = Len(chunks) + 1
       => (Len(chunks') \in inflight' <=> apiKeyProp # "")]_vars

\* C40: from the default list and under every sequence of addTemplate,
\* updateTemplate and deleteTemplate calls, the list holds at least one
\* template, deleteTemplate leaves a list of one template as it is, and a
\* template that was added or updated holds the first MAX_ITEMS of the items
\* supplied, in order.
TemplatesKeptAndCapped ==
    /\ [](Len(templates) >= 1)
    /\ [](\A i \in 1..Len(templates) : Len(templates[i].items) <= MAX_ITEMS)
    /\ [](tmplLast.op = "add" =>
            /\ Len(templates[Len(templates)].items) <= MAX_ITEMS
            /\ \A k \in 1..Len(tmplLast.items) :
                  k <= MAX_ITEMS => /\ k <= Len(templates[Len(templates)].items)
                                    /\ templates[Len(templates)].items[k] = tmplLast.items[k])
    /\ [](tmplLast.op = "update" =>
            \A i \in 1..Len(templates) :
                templates[i].id = tmplLast.id =>
                    \A k \in 1..Len(tmplLast.items) :
                        k <= MAX_ITEMS => /\ k <= Len(templates[i].items)
                                          /\ templates[i].items[k] = tmplLast.items[k])
    /\ [][(tmplLast'.op = "delete" /\ Len(templates) = 1) => templates' = templates]_vars

\* C10: from a start() that returned true until the next stop(), getIsRunning()
\* is true.
RunningFromStartToStop == sinceStart => getIsRunning

====
